---- MODULE Spec2Model ----
(***************************************************************************)
(* kpqueue: the k-LSM relaxed concurrent priority queue.                   *)
(*                                                                         *)
(* The model covers the distributed LSM (dist_lsm_local, one per thread),  *)
(* the blocks and items it is built from, the shared LSM (a block array    *)
(* published by pointer swap) and the k-LSM facade that combines both.     *)
(* Thread-local work of one operation is one step; every access to shared  *)
(* memory that another thread can race with (the version CAS of an item,   *)
(* the load and the CAS of the global block array pointer) is a step of    *)
(* its own.                                                                *)
(***************************************************************************)
EXTENDS Integers, Sequences, FiniteSets, TLC

(* ------------------------------ bounds -------------------------------- *)

\* Inserts and delete_min calls started in one run of dist_lsm.
MaxInserts == 5

MaxDeletes == 3

\* Inserts and delete_min calls started in one run of k_lsm.
MaxKInserts == 3

MaxKDeletes == 2

\* Inserts and delete_min calls started in one run of shared_lsm.
MaxSharedInserts == 2

MaxSharedDeletes == 3

\* Inserts started in one run of k_lsm whose threads only insert (the fill
\* phase of the benchmark).
MaxFill == 4

\* Items the producer inserts in the producer/consumer run.
MaxProduced == 3

\* Inserts and delete_min calls started in one run of dist_lsm on small slabs.
MaxSlabInserts == 3

MaxSlabDeletes == 2

\* Largest power of two of a block given to a lazy_block.
LazyPMax == 2

\* Largest index given to an interval_tree, and largest n asked of
\* nth_untaken_ix.
MaxIndex == 8

MaxNth == 4

\* Worker threads and initial size of a benchmark run, and loop iterations
\* of one worker in its measured phase.
MaxWorkers == 2

MaxSize == 3

MaxOps == 2

Threads == {1, 2}

\* Keys offered to insert; the value stored with a key is ValOf(key).
Keys == {1, 2}

ValOf(k) == k + 10

\* Relaxation parameters (the template argument Rlx) the k-LSM is built with.
Relaxations == {0, 2, 3}

(* ------------------------------ constants ----------------------------- *)

\* Slots of one thread's item slab (item_allocator); slabs are fixed-size.
SlabSize == 8

\* Slots of a slab in the runs that go round the slab.
SmallSlab == 2

\* Retry bound R of the shared LSM's delete_min.
MaxRetries == 2

\* The null pointer of item pointers.
nullptr == 0

\* Largest power of two of a block (P_max), scaled to the bounds above.
PMax == 4

Cells == 1 .. (Cardinality(Threads) * SlabSize)

\* The slab of thread t is the SlabSize cells after SlabBase(t).
SlabBase(t) == (t - 1) * SlabSize

(* ------------------------------ state --------------------------------- *)

VARIABLES
    mode,           \* the queue and its workload: "dlsm" (dist_lsm alone),
                    \* "slab" (dist_lsm alone, on slabs of SmallSlab slots),
                    \* "slsm" (shared_lsm alone), "klsm" (k_lsm), "fill" (k_lsm,
                    \* inserts only), "prodcons" (k_lsm, thread 1 inserts and
                    \* thread 2 calls delete_min), "lazy" (a lazy_block),
                    \* "tree" (an interval_tree), "bench" (the benchmark harness)
    Rlx,            \* the relaxation template parameter
    items,          \* cell -> [key, val, version]: the item cells
    m_ix,           \* thread -> cursor of its item allocator (0-based slot)
    m_blocks,       \* thread -> sequence of blocks, m_blocks[0 .. m_size)
    m_cached_best,  \* thread -> peek_t
    m_global,       \* the published block array (a buffer id)
    arrays,         \* buffer id -> block array (slot -> block or NoBlock)
    bufsel,         \* thread -> which of its two buffers is the next candidate
    pc,             \* thread -> position in the running operation
    best,           \* thread -> the candidate selected by delete_min
    pend,           \* thread -> block handed to shared_lsm::insert
    keep,           \* thread -> other_ix + 1 of the running merge_insert
    cur,            \* thread -> block array pointer loaded from m_global
    m_local_array_copy, \* thread -> its copy of the block array at cur
    retries,        \* thread -> failed attempts of the running sLSM delete_min
    out,            \* thread -> the V &val argument of its delete_min calls
    result,         \* the last operation that returned: its thread and value
    aborted,        \* the process was killed by a fault
    nIns,           \* inserts started
    nDel,           \* delete_mins started
    active,         \* the threads that have started an operation
    numInserted,    \* completed inserts
    numReturned,    \* successful delete_mins
    takenPairs,     \* (item, version) pairs taken by successful delete_mins
    hist,           \* observations recorded for the properties below
    lazy,           \* the lazy_block, the blocks given to it and its result
    tree,           \* the interval_tree: its nodes, m_root and the last result
    bench           \* the benchmark harness: barriers, workers and counters

vars == <<mode, Rlx, items, m_ix, m_blocks, m_cached_best, m_global, arrays,
          bufsel, pc, best, pend, keep, cur, m_local_array_copy, retries, out, result, aborted,
          nIns, nDel, active, numInserted, numReturned, takenPairs, hist, lazy,
          tree, bench>>

(* ------------------------------ item ---------------------------------- *)

\* item::version
version(its, it) == its[it].version

\* item::key
key(its, it) == its[it].key

\* item::initialize: stores key and value, leaves the version alone.
initialize(its, it, k, v) == [its EXCEPT ![it].key = k, ![it].val = v]

\* item::take: CAS of the version from expected to expected + 1.  The value
\* is copied out on success only.  Yields the new cells, the result and val.
take(its, it, expected, val) ==
    IF its[it].version = expected
    THEN [items |-> [its EXCEPT ![it].version = expected + 1],
          ok |-> TRUE, val |-> its[it].val]
    ELSE [items |-> its, ok |-> FALSE, val |-> val]

\* item::reuse, the predicate of the item allocator.
reuse(its, it) == its[it].version % 2 = 0

\* The slots of a slab in the current run.
slab_slots == IF mode = "slab" THEN SmallSlab ELSE SlabSize

\* item_allocator::acquire: walks the slab round-robin from the cursor and
\* returns the first reusable slot, with the advanced cursor.
acquire_slots(its, t, ix) ==
    { n \in 0 .. (slab_slots - 1) : reuse(its, SlabBase(t) + ((ix + n) % slab_slots) + 1) }

can_acquire(its, t, ix) == acquire_slots(its, t, ix) # {}

acquire(its, t, ix) ==
    LET n == CHOOSE n \in acquire_slots(its, t, ix) :
                 \A o \in acquire_slots(its, t, ix) : n <= o
        slot == (ix + n) % slab_slots
    IN  [item |-> SlabBase(t) + slot + 1, ix |-> (slot + 1) % slab_slots]

(* ------------------------------ block --------------------------------- *)

\* A block: pairs[1 .. last] are the (item, version) pairs written so far,
\* first is m_first (0-based), pow is m_power_of_2, pool is the memory the
\* block lives in: a dist_lsm_local's m_block_storage or a shared_lsm_local's
\* m_block_pool.
NoBlock == [pairs |-> <<>>, first |-> 0, pow |-> -1, pool |-> "none"]

\* block_storage::get_block / block_pool::get_block: an empty block of
\* capacity 2^pow.
get_block(p) == [pairs |-> <<>>, first |-> 0, pow |-> p, pool |-> "block_storage"]

\* block_pool::get_block of a shared_lsm_local, filled with the pairs of b.
pool_block(b) == [b EXCEPT !.pool = "block_pool"]

Pow2(n) == 2 ^ n

capacity(b) == Pow2(b.pow)

last(b) == Len(b.pairs)

size(b) == last(b) - b.first

\* block::item_owned
item_owned(its, p) == version(its, p[1]) = p[2]

\* peek_t
EMPTY == [item |-> nullptr, key |-> 0, version |-> 0]

empty(p) == p.item = nullptr

taken(its, p) == version(its, p.item) # p.version

peek_of(its, p) == [item |-> p[1], key |-> key(its, p[1]), version |-> p[2]]

\* peek_t::take
peek_t_take_reread(its, p, val) == take(its, p.item, version(its, p.item), val)

peek_t_take(its, p, val) == take(its, p.item, p.version, val)

\* block::insert and block::insert_tail: append at m_last.
block_insert(b, it, ver) == [b EXCEPT !.pairs = Append(@, <<it, ver>>)]

insert_tail(b, it, ver) == [b EXCEPT !.pairs = Append(@, <<it, ver>>)]

\* The owned pairs of b within [from, last), in index order (from is 0-based).
live_from(its, b, from) ==
    LET Owned(p) == item_owned(its, p)
    IN  SelectSeq(SubSeq(b.pairs, from + 1, last(b)), Owned)

live(its, b) == live_from(its, b, b.first)

\* block::copy: the owned pairs of that, densely, into a block of capacity 2^p.
copy(its, p, that) == [get_block(p) EXCEPT !.pairs = live(its, that)]

RECURSIVE merge_pairs(_, _, _)
merge_pairs(its, l, r) ==
    IF l = <<>> THEN r
    ELSE IF r = <<>> THEN l
    ELSE IF key(its, r[1][1]) < key(its, l[1][1])
         THEN <<r[1]>> \o merge_pairs(its, l, Tail(r))
         ELSE <<l[1]>> \o merge_pairs(its, Tail(l), r)

\* block::merge: the sorted union of the owned pairs of lhs and rhs.
merge(its, p, lhs, rhs) ==
    [get_block(p) EXCEPT !.pairs = merge_pairs(its, live(its, lhs), live(its, rhs))]

\* Index (0-based) of the first owned pair at or after m_first, or m_last.
first_owned(its, b) ==
    LET own == { i \in b.first .. (last(b) - 1) : item_owned(its, b.pairs[i + 1]) }
    IN  IF own = {} THEN last(b)
        ELSE CHOOSE i \in own : \A j \in own : i <= j

\* block::peek: moves m_first past the leading unowned pairs and returns the
\* first owned pair, or EMPTY.
peek_block(its, b) == [b EXCEPT !.first = first_owned(its, b)]

peek_cand(its, b) ==
    LET f == first_owned(its, b)
    IN  IF f = last(b) THEN EMPTY ELSE peek_of(its, b.pairs[f + 1])

\* block::peek_tail: the key of the last owned pair, if there is one.
peek_tail(its, b) ==
    LET own == { i \in b.first .. (last(b) - 1) : item_owned(its, b.pairs[i + 1]) }
    IN  IF own = {} THEN [found |-> FALSE, key |-> 0]
        ELSE LET i == CHOOSE i \in own : \A j \in own : j <= i
             IN  [found |-> TRUE, key |-> key(its, b.pairs[i + 1][1])]

(* ------------------------------ dist_lsm_local ------------------------ *)

\* dist_lsm_local::insert, the update of the cached best item.
insert_cached_best(its, cb, it, ver) ==
    IF empty(cb) \/ key(its, it) < cb.key
    THEN [item |-> it, key |-> key(its, it), version |-> ver]
    ELSE IF taken(its, cb) THEN [cb EXCEPT !.item = nullptr]
    ELSE cb

\* dist_lsm_local::insert, the condition of the tail-append path.
can_append_unordered(its, blocks, k) ==
    /\ Len(blocks) > 0
    /\ last(blocks[Len(blocks)]) < capacity(blocks[Len(blocks)])
    /\ peek_tail(its, blocks[Len(blocks)]).found

can_append(its, blocks, k) ==
    /\ Len(blocks) > 0
    /\ last(blocks[Len(blocks)]) < capacity(blocks[Len(blocks)])
    /\ peek_tail(its, blocks[Len(blocks)]).found
    /\ peek_tail(its, blocks[Len(blocks)]).key <= k

\* merge_insert, the power of two of the block two equal-capacity blocks
\* are merged into.
merged_pow2_grow(insert_block, other_block) == insert_block.pow + 1

merged_pow2_keep(insert_block, other_block) == insert_block.pow

merged_pow2(insert_block, other_block) ==
    IF size(insert_block) + size(other_block) <= capacity(insert_block)
    THEN insert_block.pow
    ELSE insert_block.pow + 1

\* merge_insert, the merge loop.  other_ix is the 1-based index of
\* other_block, 0 when there is none; the code's other_ix is one less.
RECURSIVE merge_cascade(_, _, _, _)
merge_cascade(its, blocks, insert_block, other_ix) ==
    IF other_ix >= 1 /\ capacity(insert_block) = capacity(blocks[other_ix])
    THEN merge_cascade(its, blocks,
                       merge(its, merged_pow2(insert_block, blocks[other_ix]),
                             insert_block, blocks[other_ix]),
                       other_ix - 1)
    ELSE [block |-> insert_block, other_ix |-> other_ix]

\* merge_insert, the merge loop as it is observed: the number of merges it
\* makes and how many of them keep the power of two of insert_block.
RECURSIVE cascade_trace(_, _, _, _)
cascade_trace(its, blocks, insert_block, other_ix) ==
    IF other_ix >= 1 /\ capacity(insert_block) = capacity(blocks[other_ix])
    THEN LET p == merged_pow2(insert_block, blocks[other_ix])
             r == cascade_trace(its, blocks,
                                merge(its, p, insert_block, blocks[other_ix]),
                                other_ix - 1)
         IN  [merges |-> r.merges + 1,
              kept |-> r.kept + (IF p = insert_block.pow THEN 1 ELSE 0)]
    ELSE [merges |-> 0, kept |-> 0]

\* merge_insert, the test that hands the merged block to the shared LSM; the
\* division is the one of C++ ints.
exceeds_relaxation_ceil(slsm, rlx, insert_block) ==
    slsm /\ size(insert_block) >= (rlx + 2) \div 2

exceeds_relaxation(slsm, rlx, insert_block) ==
    slsm /\ size(insert_block) >= (rlx + 1) \div 2

\* dist_lsm_local::merge_insert up to the call of slsm->insert: with publish
\* the block list is left as it is until that call returns.
merge_insert(its, blocks, new_block, slsm, rlx) ==
    LET c == merge_cascade(its, blocks, new_block, Len(blocks))
    IN  IF exceeds_relaxation(slsm, rlx, c.block)
        THEN [blocks |-> blocks, publish |-> TRUE, pend |-> c.block, keep |-> c.other_ix]
        ELSE [blocks |-> Append(SubSeq(blocks, 1, c.other_ix), c.block),
              publish |-> FALSE, pend |-> NoBlock, keep |-> 0]

\* dist_lsm_local::insert(it, version, slsm) after the cached best update.
dlsm_insert(its, blocks, it, ver, slsm, rlx) ==
    IF can_append(its, blocks, key(its, it))
    THEN [blocks |-> [blocks EXCEPT ![Len(blocks)] = insert_tail(@, it, ver)],
          publish |-> FALSE, pend |-> NoBlock, keep |-> 0]
    ELSE merge_insert(its, blocks, block_insert(get_block(0), it, ver), slsm, rlx)

\* dist_lsm_local::spy: disabled, returns 0.  Its body, compiled out, returns
\* the number of items copied from a peer (spy_enabled: one item).
spy_enabled == 1

spy == 0

\* Removal of m_blocks[ix] by memmove (ix is 1-based).
remove_at(blocks, ix) == SubSeq(blocks, 1, ix - 1) \o SubSeq(blocks, ix + 1, Len(blocks))

\* peek, the choice between the best so far and a block's candidate.
better(b, candidate) ==
    IF empty(b) \/ (~empty(candidate) /\ candidate.key < b.key) THEN candidate ELSE b

\* peek, the shrink of m_blocks[ix] with the merge into its right neighbour.
shrink_only(its, blocks, ix) ==
    [blocks EXCEPT ![ix] = copy(its, blocks[ix].pow - 1, blocks[ix])]

shrink(its, blocks, ix) ==
    LET new_block == copy(its, blocks[ix].pow - 1, blocks[ix])
    IN  IF ix + 1 <= Len(blocks) /\ capacity(new_block) = capacity(blocks[ix + 1])
        THEN remove_at([blocks EXCEPT ![ix] = merge(its, new_block.pow + 1, new_block,
                                                    blocks[ix + 1])], ix + 1)
        ELSE [blocks EXCEPT ![ix] = new_block]

\* peek, the condition of the while loop that removes or shrinks a block.
only_empty(b) == size(b) = 0

at_most_half(b) == size(b) <= capacity(b) \div 2

\* dist_lsm_local::peek, the scan of the block list.  peek_outer is the code
\* from the label 'outer', peek_while the while loop on block ix, peek_scan
\* the for loop's test.  After the removal of an empty block the code jumps
\* to 'outer' without the test ix < m_size: if the removed block was the last
\* one, m_blocks[ix] still is the removed (empty) block, and its removal is
\* run again with the memmove length m_size - ix - 1 = -1 as a size_t, which
\* is undefined behaviour (ub).
RECURSIVE peek_scan(_, _, _, _), peek_outer(_, _, _, _), peek_while(_, _, _, _)
peek_scan(its, blocks, ix, b) ==
    IF ix <= Len(blocks) THEN peek_outer(its, blocks, ix, b)
    ELSE [blocks |-> blocks, best |-> b, ub |-> FALSE]

peek_outer(its, blocks, ix, b) ==
    IF ix > Len(blocks) THEN [blocks |-> blocks, best |-> b, ub |-> TRUE]
    ELSE peek_while(its, [blocks EXCEPT ![ix] = peek_block(its, @)], ix, b)

peek_while(its, blocks, ix, b) ==
    IF at_most_half(blocks[ix])
    THEN IF size(blocks[ix]) = 0
         THEN peek_outer(its, remove_at(blocks, ix), ix, b)
         ELSE peek_while(its, [shrink(its, blocks, ix) EXCEPT ![ix] = peek_block(its, @)],
                         ix, b)
    ELSE peek_scan(its, blocks, ix + 1, better(b, peek_cand(its, blocks[ix])))

\* dist_lsm_local::peek; peeks counts the calls of peek within one delete_min.
peek(its, blocks, cb) ==
    IF ~empty(cb) /\ ~taken(its, cb)
    THEN [blocks |-> blocks, best |-> cb, cached_best |-> cb, ub |-> FALSE, peeks |-> 1]
    ELSE LET r == peek_scan(its, blocks, 1, EMPTY)
         IN  [blocks |-> r.blocks, best |-> r.best,
              cached_best |-> IF r.ub THEN cb ELSE r.best, ub |-> r.ub, peeks |-> 1]

\* dist_lsm_local::delete_min up to the take: peek, and a second peek after a
\* successful spy.
delete_min_peek(its, blocks, cb) ==
    LET p == peek(its, blocks, cb)
    IN  IF ~p.ub /\ empty(p.best) /\ spy > 0
        THEN [peek(its, p.blocks, p.cached_best) EXCEPT !.peeks = 2]
        ELSE p

\* dist_lsm_local::delete_min, the take of the selected candidate.
delete_min_take_reread(its, b, val) == take(its, b.item, version(its, b.item), val)

delete_min_take(its, b, val) == peek_t_take(its, b, val)

(* ------------------------------ block_array --------------------------- *)

Powers == 0 .. PMax

\* A block array: one slot per size class.
EmptyArray == [p \in Powers |-> NoBlock]

\* The buffers block arrays live in: 0 is the array published at construction,
\* thread t owns the two buffers BufferOf(t, 0) and BufferOf(t, 1).
Buffers == 0 .. (2 * Cardinality(Threads))

BufferOf(t, sel) == 2 * (t - 1) + 1 + sel

\* block_array::insert: the block goes to the slot of its size class; a
\* collision is resolved by merging into the next size class (collision_pow),
\* cascading.
collision_pow_same(b) == b.pow

collision_pow(b) == b.pow + 1

RECURSIVE array_insert(_, _, _)
array_insert(its, arr, b) ==
    IF arr[b.pow] = NoBlock THEN [arr EXCEPT ![b.pow] = b]
    ELSE array_insert(its, [arr EXCEPT ![b.pow] = NoBlock],
                      pool_block(merge(its, collision_pow(b), b, arr[b.pow])))

\* block_array::remove_stale: a slot with at most half its capacity owned is
\* rebuilt in the next lower size class (an all-stale block is dropped).
RECURSIVE remove_stale_from(_, _, _)
remove_stale_from(its, arr, p) ==
    IF p < 0 THEN arr
    ELSE IF arr[p] = NoBlock \/ Len(live(its, arr[p])) > capacity(arr[p]) \div 2
         THEN remove_stale_from(its, arr, p - 1)
    ELSE IF Len(live(its, arr[p])) = 0
         THEN remove_stale_from(its, [arr EXCEPT ![p] = NoBlock], p - 1)
    ELSE remove_stale_from(its,
                           array_insert(its, [arr EXCEPT ![p] = NoBlock],
                                        pool_block(copy(its, p - 1, arr[p]))),
                           p - 1)

remove_stale(its, arr) == remove_stale_from(its, arr, PMax)

\* block_array::minimum: the smallest of the slots' first owned pairs.  The
\* blocks are read only: no m_first is moved.
RECURSIVE minimum_from(_, _, _, _)
minimum_from(its, arr, p, b) ==
    IF p > PMax THEN b
    ELSE minimum_from(its, arr, p + 1,
                      IF arr[p] = NoBlock THEN b ELSE better(b, peek_cand(its, arr[p])))

minimum(its, arr) == minimum_from(its, arr, 0, EMPTY)

(* ------------------------------ shared_lsm ---------------------------- *)

\* shared_lsm::insert(block), step 1: the copy of the passed block into a
\* block of the thread's own pool.
insert_copy_alias(its, b) == b

insert_copy(its, b) == pool_block(copy(its, b.pow, b))

\* shared_lsm::insert, the candidate array built from the local copy.
insert_candidate(its, local_copy, b) == array_insert(its, local_copy, b)

\* The buffer a thread builds its next candidate in.
candidate_fixed(t, sel) == BufferOf(t, 0)

candidate(t, sel) == BufferOf(t, sel)

\* The CAS on m_global (compare_exchange_strong on the atomic pointer): stores
\* desired iff the pointer still equals expected.
compare_exchange_blind(global, expected, desired) ==
    [ok |-> global = expected, value |-> desired]

compare_exchange(global, expected, desired) ==
    IF global = expected THEN [ok |-> TRUE, value |-> desired]
    ELSE [ok |-> FALSE, value |-> global]

\* shared_lsm::delete_min, the test that ends the retry loop after a lost
\* version CAS: failed counts the lost attempts, this one included.
retries_unbounded(failed) == FALSE

retries_exhausted(failed) == failed >= MaxRetries

(* ------------------------------ k_lsm --------------------------------- *)

\* k_lsm::delete_min: the candidates the facade may take, given the dLSM's
\* best and the sLSM's minimum: the smaller one, either one on equal keys.
smaller_of_first(d, s) == IF empty(d) THEN {s} ELSE {d}

smaller_of(d, s) ==
    IF empty(d) THEN {s}
    ELSE IF empty(s) THEN {d}
    ELSE IF d.key < s.key THEN {d}
    ELSE IF s.key < d.key THEN {s}
    ELSE {d, s}

(* ------------------------------ lazy_block ---------------------------- *)

Range(f) == { f[x] : x \in DOMAIN f }

\* The template parameter MaxBlocks: the heads m_heads has room for.
MaxBlocks == 3

\* The items the blocks given to a lazy block refer to, with their keys, and
\* the item an earlier use of a block's memory referred to.
LazyCells == 1 .. 3

LeftoverCell == 4

LazyKey(c) == (c + 1) \div 2

\* A value-initialised item pair: its item pointer is nullptr.
NullPair == <<nullptr, 0>>

\* What a read of m_item_pairs[i] with i >= last may find: a null pair, or a
\* pair left in the slot by an earlier use of the block's memory, which may
\* refer to an item that other blocks hold now or to any other item.
Slack == {NullPair} \cup { <<c, 0>> : c \in LazyCells \cup {LeftoverCell} }

\* b->m_item_pairs[i], i counted from 0.
item_pair_at(b, i, slack) == IF i < last(b) THEN b.pairs[i + 1] ELSE slack

\* lazy_block::next_head.  The loop tests item_owned(m_item_pairs[i]) before
\* i < last, so it ends with a read of the slot at i >= last (oob) whenever
\* no owned pair is left, and the head is set whenever ix < last, also when
\* the loop has ended at i = last.  item_owned of a null pair dereferences
\* nullptr (fault).
next_head(its, b, ix, slack) ==
    LET own == { i \in ix .. (last(b) - 1) : item_owned(its, b.pairs[i + 1]) }
        i   == IF own # {} THEN CHOOSE i \in own : \A j \in own : i <= j
               ELSE IF ix < last(b) THEN last(b) ELSE ix
    IN  [found |-> ix < last(b),
         head |-> [b |-> b, ix |-> i,
                   key |-> IF i >= last(b) /\ slack = NullPair THEN 0
                           ELSE key(its, item_pair_at(b, i, slack)[1])],
         oob |-> i >= last(b),
         fault |-> i >= last(b) /\ slack = NullPair]

\* No lazy block.
NoLazy ==
    [phase |-> "none", m_power_of_2 |-> 0, m_capacity |-> 0, m_heads |-> <<>>,
     given |-> <<>>, out |-> NoBlock, acquired |-> FALSE, oob |-> FALSE]

\* lazy_block::lazy_block(b, b_first).  m_heads is m_heads[0 .. m_block_count);
\* given lists the blocks handed to the lazy block, oob tells that a slot at
\* or beyond last has been read.
lazy_new(its, b, b_first, slack) ==
    LET h == next_head(its, b, b_first, slack)
    IN  [phase |-> IF h.fault THEN "fault" ELSE "open",
         m_power_of_2 |-> b.pow,
         m_capacity |-> capacity(b),
         m_heads |-> IF h.found /\ ~h.fault THEN <<h.head>> ELSE <<>>,
         given |-> <<[b |-> b, first |-> b_first]>>,
         out |-> NoBlock, acquired |-> FALSE, oob |-> h.oob]

\* lazy_block::merge, its two assertions.
merge_asserts_count(lz, b) == Len(lz.m_heads) < MaxBlocks

merge_asserts(lz, b) == Len(lz.m_heads) < MaxBlocks /\ lz.m_power_of_2 = b.pow

\* lazy_block::merge(b, b_first): a failed assertion aborts.
lazy_merge(its, lz, b, b_first, slack) ==
    LET h == next_head(its, b, b_first, slack)
        g == Append(lz.given, [b |-> b, first |-> b_first])
    IN  IF ~merge_asserts(lz, b) THEN [lz EXCEPT !.phase = "assert", !.given = g]
        ELSE IF h.fault THEN [lz EXCEPT !.phase = "fault", !.given = g, !.oob = TRUE]
        ELSE [lz EXCEPT !.m_heads = IF h.found THEN Append(@, h.head) ELSE @,
                        !.m_power_of_2 = @ + 1,
                        !.m_capacity = @ * 2,
                        !.given = g,
                        !.oob = @ \/ h.oob]

\* The heads pop_heap may move to the end of the heap: one with the smallest
\* key.
min_heads(heads) == { h \in heads : \A o \in heads : h.key <= o.key }

\* lazy_block::finalize, the loops: the multi-way merge while more than one
\* head is left, then the trailing pairs of the remaining block.  Yields the
\* pairs written to merge_block, for every order the heap may give heads of
\* equal keys in.
RECURSIVE merge_heads(_, _, _, _), append_trailing(_, _, _, _)
merge_heads(its, heads, dst, slack) ==
    IF Cardinality(heads) > 1
    THEN UNION { LET n == next_head(its, h.b, h.ix + 1, slack)
                     d == Append(dst, item_pair_at(h.b, h.ix, slack))
                 IN  IF n.fault THEN {[pairs |-> d, fault |-> TRUE, oob |-> TRUE]}
                     ELSE { [r EXCEPT !.oob = @ \/ n.oob] :
                              r \in merge_heads(its,
                                                (heads \ {h}) \cup
                                                    (IF n.found THEN {n.head} ELSE {}),
                                                d, slack) } :
                 h \in min_heads(heads) }
    ELSE append_trailing(its, CHOOSE h \in heads : TRUE, dst, slack)

append_trailing(its, head, dst, slack) ==
    LET n == next_head(its, head.b, head.ix + 1, slack)
        d == Append(dst, item_pair_at(head.b, head.ix, slack))
    IN  IF n.fault THEN {[pairs |-> d, fault |-> TRUE, oob |-> TRUE]}
        ELSE IF n.found
             THEN { [r EXCEPT !.oob = TRUE \/ n.oob] :
                      r \in append_trailing(its, n.head, d, slack) }
        ELSE {[pairs |-> d, fault |-> FALSE, oob |-> n.oob]}

\* lazy_block::finalize(pool): the lazy blocks it may end in.  With no head
\* at all the code reads the uninitialized m_heads[0] (ub).
finalize(its, lz, slack) ==
    IF Len(lz.m_heads) = 1
    THEN {[lz EXCEPT !.phase = "done", !.out = lz.m_heads[1].b]}
    ELSE IF Len(lz.m_heads) = 0
    THEN {[lz EXCEPT !.phase = "ub", !.acquired = TRUE]}
    ELSE { [lz EXCEPT !.phase = IF r.fault THEN "fault" ELSE "done",
                      !.out = IF r.fault THEN NoBlock
                              ELSE [pool_block(get_block(lz.m_power_of_2))
                                        EXCEPT !.pairs = r.pairs],
                      !.acquired = TRUE,
                      !.oob = @ \/ r.oob] :
             r \in merge_heads(its, Range(lz.m_heads), <<>>, slack) }

(* ------------------------------ interval_tree ------------------------- *)

\* The width of int, scaled down from 32 bits.
IntBits == 6

\* The int that _nth_untaken_ix returns its uint64_t results in: a value out
\* of its range wraps.
INT_MAX == 2 ^ (IntBits - 1) - 1

to_int(x) == ((x + INT_MAX + 1) % (2 * (INT_MAX + 1))) - (INT_MAX + 1)

\* The indices offered to interval_tree::insert and to the two queries, and
\* the n asked of nth_untaken_ix: small ones, and the last two that fit an int.
Indices == 0 .. MaxIndex

NthArgs == (0 .. MaxNth) \cup {INT_MAX - 1, INT_MAX}

std_min(a, b) == IF a <= b THEN a ELSE b

std_max(a, b) == IF a >= b THEN a ELSE b

abs(x) == IF x < 0 THEN -x ELSE x

\* An interval_tree after construction. nodes is the memory of the itree_t
\* nodes reachable from m_root, a node's address being its position; ret is
\* what the last itree_insert returned and query what the last query did.
\* inserted (the indices of the inserts that returned 0) and ev (what the
\* last insert did to the tree) are observations.
NoQuery == [op |-> "none", arg |-> 0, value |-> 0]

NoTree ==
    [nodes |-> <<>>, m_root |-> nullptr, ret |-> 0, phase |-> "ok",
     query |-> NoQuery, inserted |-> {}, ev |-> {}]

\* The itree_t **root argument: m_root, or the l or r field of a node.
m_root_slot == <<nullptr, "m_root">>

deref(st, root) ==
    IF root[1] = nullptr THEN st.m_root ELSE st.nodes[root[1]][root[2]]

store(st, root, p) ==
    IF root[1] = nullptr THEN [st EXCEPT !.m_root = p]
    ELSE [st EXCEPT !.nodes[root[1]][root[2]] = p]

interval_size_open(node) == node.k2 - node.k1

interval_size(node) == node.k2 - node.k1 + 1

\* interval_tree::_itree_new_node
_itree_new_node(st, index, root) ==
    LET node == [l |-> nullptr, r |-> nullptr, k1 |-> index, k2 |-> index,
                 v |-> 0, h |-> 0]
        s1   == [st EXCEPT !.nodes = Append(@, node), !.ev = @ \cup {"new"}]
    IN  store(s1, root, Len(s1.nodes))

\* interval_tree::_itree_extend_node
_itree_extend_node(st, index, node) ==
    LET n  == st.nodes[node]
        s1 == [st EXCEPT !.ev = @ \cup {"extend"},
                         !.failed = @ \/ ~(index = n.k1 - 1 \/ n.k2 + 1 = index)]
    IN  IF index < n.k1 THEN [s1 EXCEPT !.nodes[node].k1 = index]
        ELSE [s1 EXCEPT !.nodes[node].k2 = index]

\* interval_tree::_itree_merge_nodes
_itree_merge_nodes(st, upper, lower) ==
    LET u  == st.nodes[upper]
        lo == st.nodes[lower]
        s1 == [st EXCEPT !.ev = @ \cup {"merge"},
                         !.failed = @ \/ ~(u.k2 + 1 = lo.k1 - 1 \/ u.k1 - 1 = lo.k2 + 1)]
    IN  IF u.k1 > lo.k2 THEN [s1 EXCEPT !.nodes[upper].k1 = lo.k1]
        ELSE [s1 EXCEPT !.nodes[upper].k2 = lo.k2]

\* interval_tree::_itree_height
_itree_height(st, node) == IF node = nullptr THEN -1 ELSE st.nodes[node].h

\* interval_tree::_itree_set_height
_itree_set_height(st, node) ==
    [st EXCEPT !.nodes[node].h =
         std_max(_itree_height(st, st.nodes[node].l),
                 _itree_height(st, st.nodes[node].r)) + 1]

\* interval_tree::_itree_count
RECURSIVE _itree_count(_, _)
_itree_count(st, root) ==
    IF root = nullptr THEN 0
    ELSE interval_size(st.nodes[root]) + st.nodes[root].v
         + _itree_count(st, st.nodes[root].r)

\* _itree_rebalance, lh < rh: the right-left case, then the right-right case.
rotate_right_left(st, droot) ==
    LET r  == st.nodes[droot].r
        m  == st.nodes[r].l
        s1 == [st EXCEPT !.nodes[droot].r = m]
        s2 == [s1 EXCEPT !.nodes[r].l = s1.nodes[m].r]
        s3 == [s2 EXCEPT !.nodes[m].r = r]
        s4 == [s3 EXCEPT !.nodes[r].v = _itree_count(s3, s3.nodes[r].l)]
    IN  [_itree_set_height(s4, r) EXCEPT !.ev = @ \cup {"right-left"}]

rotate_right_right(st, root, droot) ==
    LET r  == st.nodes[droot].r
        s1 == [st EXCEPT !.nodes[droot].r = st.nodes[r].l]
        s2 == [s1 EXCEPT !.nodes[r].l = droot]
        s3 == store(s2, root, r)
        d  == s3.nodes[droot]
        s4 == [s3 EXCEPT !.nodes[r].v = @ + d.v + d.k2 - d.k1 + 1]
    IN  [_itree_set_height(_itree_set_height(s4, droot), r)
             EXCEPT !.ev = @ \cup {"right-right"}]

\* _itree_rebalance, lh > rh: the left-right case, then the left-left case.
rotate_left_right(st, droot) ==
    LET l  == st.nodes[droot].l
        m  == st.nodes[l].r
        s1 == [st EXCEPT !.nodes[droot].l = m]
        s2 == [s1 EXCEPT !.nodes[l].r = s1.nodes[m].l]
        s3 == [s2 EXCEPT !.nodes[m].l = l]
        lo == s3.nodes[l]
        s4 == [s3 EXCEPT !.nodes[m].v = @ + lo.v + lo.k2 - lo.k1 + 1]
    IN  [_itree_set_height(s4, l) EXCEPT !.ev = @ \cup {"left-right"}]

rotate_left_left(st, root, droot) ==
    LET l  == st.nodes[droot].l
        s1 == [st EXCEPT !.nodes[droot].l = st.nodes[l].r]
        s2 == [s1 EXCEPT !.nodes[l].r = droot]
        s3 == store(s2, root, l)
        s4 == [s3 EXCEPT !.nodes[droot].v = _itree_count(s3, s3.nodes[droot].l)]
    IN  [_itree_set_height(_itree_set_height(s4, droot), l)
             EXCEPT !.ev = @ \cup {"left-left"}]

\* interval_tree::_itree_rebalance
_itree_rebalance(st, root) ==
    LET droot == deref(st, root)
        lh    == _itree_height(st, st.nodes[droot].l)
        rh    == _itree_height(st, st.nodes[droot].r)
    IN  IF abs(lh - rh) < 2 THEN st
        ELSE IF lh < rh
        THEN LET r   == st.nodes[droot].r
                 rlh == _itree_height(st, st.nodes[r].l)
                 rrh == _itree_height(st, st.nodes[r].r)
             IN  rotate_right_right(
                     IF rlh > rrh THEN rotate_right_left(st, droot) ELSE st,
                     root, droot)
        ELSE LET l   == st.nodes[droot].l
                 llh == _itree_height(st, st.nodes[l].l)
                 lrh == _itree_height(st, st.nodes[l].r)
             IN  rotate_left_left(
                     IF lrh > llh THEN rotate_left_right(st, droot) ELSE st,
                     root, droot)

\* The adjacent node found on the way down: the upper one first, then the
\* lower one.
note_upper_only(st, droot) ==
    IF st.u = nullptr THEN [st EXCEPT !.u = droot] ELSE st

note_adjacent(st, droot) ==
    IF st.u = nullptr THEN [st EXCEPT !.u = droot] ELSE [st EXCEPT !.l = droot]

\* "Remove the lower node" of _itree_descend_l and _itree_descend_r: the
\* child link f of droot skips util->l.
remove_lower(st, index, droot, f) ==
    IF st.l # nullptr /\ st.l = st.nodes[droot][f]
    THEN LET lo == st.nodes[st.l]
             in_left_subtree == (index = lo.k2 + 1)
         IN  [st EXCEPT !.nodes[droot][f] = IF in_left_subtree THEN lo.l ELSE lo.r,
                        !.ev = @ \cup {"remove"}]
    ELSE st

RECURSIVE _itree_insert(_, _, _), _itree_descend_l(_, _, _), _itree_descend_r(_, _, _)

\* interval_tree::_itree_descend_l
_itree_descend_l(st, index, root) ==
    LET droot == deref(st, root)
        s1 == IF st.nodes[droot].k1 = index + 1 THEN note_adjacent(st, droot) ELSE st
        below_merge == (s1.u # nullptr)
        s2 == IF s1.u = nullptr /\ s1.u # droot
              THEN [s1 EXCEPT !.nodes[droot].v = @ + 1] ELSE s1
        d  == _itree_insert(s2, index, <<droot, "l">>)
    IN  IF d.ret # 0 THEN d
        ELSE LET s3 == remove_lower(d.st, index, droot, "l")
                 s4 == IF s3.l # nullptr /\ s3.l # droot /\ below_merge
                       THEN [s3 EXCEPT !.nodes[droot].v =
                                           @ - interval_size(s3.nodes[s3.l])]
                       ELSE s3
             IN  [st |-> s4, ret |-> 0]

\* interval_tree::_itree_descend_r
_itree_descend_r(st, index, root) ==
    LET droot == deref(st, root)
        s1 == IF st.nodes[droot].k2 = index - 1 THEN note_adjacent(st, droot) ELSE st
        d  == _itree_insert(s1, index, <<droot, "r">>)
    IN  IF d.ret # 0 THEN d
        ELSE [st |-> remove_lower(d.st, index, droot, "r"), ret |-> 0]

\* interval_tree::_itree_insert
_itree_insert(st, index, root) ==
    LET droot == deref(st, root)
        balanced(d) ==
            IF d.ret # 0 THEN d
            ELSE [st |-> _itree_set_height(_itree_rebalance(d.st, root), droot),
                  ret |-> 0]
    IN  IF droot = nullptr /\ st.l # nullptr
        THEN [st |-> _itree_merge_nodes(st, st.u, st.l), ret |-> 0]
        ELSE IF droot = nullptr /\ st.u # nullptr
        THEN [st |-> _itree_extend_node(st, index, st.u), ret |-> 0]
        ELSE IF droot = nullptr
        THEN [st |-> _itree_new_node(st, index, root), ret |-> 0]
        ELSE IF st.nodes[droot].k1 > index
        THEN balanced(_itree_descend_l(st, index, root))
        ELSE IF index > st.nodes[droot].k2
        THEN balanced(_itree_descend_r(st, index, root))
        ELSE [st |-> st, ret |-> -1]

\* interval_tree::itree_insert: util starts zeroed.
itree_insert(t, index) ==
    _itree_insert([nodes |-> t.nodes, m_root |-> t.m_root, u |-> nullptr,
                   l |-> nullptr, failed |-> FALSE, ev |-> {}],
                  index, m_root_slot)

\* The nodes reachable from a node, the node first. A node that itree_insert
\* has unlinked is marked reusable and is no longer part of the tree; the
\* addresses of the others are renumbered in this order.
RECURSIVE reachable(_, _)
reachable(nodes, n) ==
    IF n = nullptr THEN <<>>
    ELSE <<n>> \o reachable(nodes, nodes[n].l) \o reachable(nodes, nodes[n].r)

address_of(order, n) ==
    IF n = nullptr THEN nullptr ELSE CHOOSE i \in 1 .. Len(order) : order[i] = n

compact(nodes, root) ==
    LET order == reachable(nodes, root)
    IN  [nodes  |-> [i \in 1 .. Len(order) |->
                        [nodes[order[i]] EXCEPT !.l = address_of(order, @),
                                                !.r = address_of(order, @)]],
         m_root |-> address_of(order, root)]

\* interval_tree::insert
tree_insert(t, index) ==
    LET d == itree_insert(t, index)
        c == compact(d.st.nodes, d.st.m_root)
    IN  [nodes |-> c.nodes, m_root |-> c.m_root, ret |-> d.ret,
         phase |-> IF d.st.failed THEN "assert"
                   ELSE IF d.ret # 0 THEN "error" ELSE "ok",
         query |-> NoQuery,
         inserted |-> IF d.ret = 0 THEN t.inserted \cup {index} ELSE t.inserted,
         ev |-> d.st.ev]

\* interval_tree::num_untaken_before: its value, and whether its assertion
\* holds.
num_untaken_before(t, index) ==
    LET num_taken == _itree_count(t, t.m_root)
    IN  [value |-> index - num_taken, asserted |-> num_taken <= index]

\* interval_tree::_nth_untaken_ix
RECURSIVE _nth_untaken_ix(_, _, _, _)
_nth_untaken_ix(t, n, node, taken_to_left_in_supertree) ==
    IF node = nullptr THEN -1
    ELSE LET nd == t.nodes[node]
             num_untaken == nd.k1 - taken_to_left_in_supertree - nd.v
         IN  IF num_untaken = n THEN to_int(nd.k2 + 1)
             ELSE IF num_untaken < n
             THEN LET taken_in_current_subtree ==
                          taken_to_left_in_supertree + nd.v + nd.k2 - nd.k1 + 1
                      ret == _nth_untaken_ix(t, n, nd.r, taken_in_current_subtree)
                  IN  IF ret = -1 THEN to_int(nd.k2 + 1 + n - num_untaken) ELSE ret
             ELSE _nth_untaken_ix(t, n, nd.l, taken_to_left_in_supertree)

\* interval_tree::nth_untaken_ix
nth_untaken_ix(t, n) ==
    LET ix == _nth_untaken_ix(t, n, t.m_root, 0)
    IN  IF ix < 0 THEN n ELSE ix

(* ------------------------------ bench --------------------------------- *)

\* kpq::counters, the three fields bench_thread increments; its operator+=.
NoCounters == [inserts |-> 0, successful_deletes |-> 0, failed_deletes |-> 0]

counters_add(a, b) ==
    [inserts |-> a.inserts + b.inserts,
     successful_deletes |-> a.successful_deletes + b.successful_deletes,
     failed_deletes |-> a.failed_deletes + b.failed_deletes]

RECURSIVE counters_sum(_, _)
counters_sum(futures, n) ==
    IF n = 0 THEN NoCounters
    ELSE counters_add(counters_sum(futures, n - 1), futures[n - 1])

operations(c) == c.inserts + c.successful_deletes + c.failed_deletes

\* The harness before bench is called: the three barriers as their static
\* initialisers leave them, no worker thread. pq is the number of items in
\* the queue under test; last is what the latest loop iteration did and
\* iterations the number of iterations of a worker's measured loop.
NoBench ==
    [phase |-> "none", nthreads |-> 0, size |-> 0, fill_barrier |-> 0,
     start_barrier |-> FALSE, end_barrier |-> FALSE, pq |-> 0, workers |-> <<>>,
     counters |-> NoCounters, last |-> [thread_id |-> 0, op |-> "none", ret |-> FALSE]]

\* bench_thread, the size of the thread's slice of the initial fill.
initial_size(thread_id, nthreads, settings_size) ==
    LET slice_size == settings_size \div nthreads
    IN  IF thread_id = nthreads - 1 THEN settings_size - thread_id * slice_size
        ELSE slice_size

\* bench, up to the last std::thread started.
bench_start(b, nthreads, settings_size) ==
    [b EXCEPT !.phase = "fill",
              !.nthreads = nthreads,
              !.size = settings_size,
              !.fill_barrier = nthreads,
              !.workers = [thread_id \in 0 .. (nthreads - 1) |->
                              [pc |-> "fill", i |-> 0, iterations |-> 0,
                               initial_size |-> initial_size(thread_id, nthreads, settings_size),
                               COUNTERS |-> NoCounters, result |-> NoCounters]]]

\* bench, the end of its wait on fill_barrier.
fill_waited(b) == b.fill_barrier < b.nthreads

fill_done(b) == ~(b.fill_barrier > 0)

\* bench_thread, the loop iteration's counter.
count_all(c, op, ret) ==
    IF op = "insert" THEN [c EXCEPT !.inserts = @ + 1]
    ELSE [c EXCEPT !.successful_deletes = @ + 1]

count_op(c, op, ret) ==
    IF op = "insert" THEN [c EXCEPT !.inserts = @ + 1]
    ELSE IF ret THEN [c EXCEPT !.successful_deletes = @ + 1]
    ELSE [c EXCEPT !.failed_deletes = @ + 1]

(* ------------------------------ observations -------------------------- *)

\* The pairs within [first, last) of a block.
block_pairs(b) == { b.pairs[i] : i \in (b.first + 1) .. last(b) }

\* The pairs referenced from a thread's block list, and from a block array.
dlsm_pairs(blocks) == UNION { block_pairs(b) : b \in Range(blocks) }

array_pairs(arr) == UNION { block_pairs(arr[p]) : p \in Powers }

\* The pairs present in the structure: every thread's dLSM and the sLSM.
present(mb, arr) == UNION { dlsm_pairs(mb[t]) : t \in Threads } \cup array_pairs(arr)

\* The items that are live: referenced by an owned pair.
live_items(its, pairs) == { p[1] : p \in { q \in pairs : item_owned(its, q) } }

LiveItems == live_items(items, present(m_blocks, arrays[m_global]))

\* The live items with a key strictly smaller than k.
smaller_items(its, pairs, k) == { it \in live_items(its, pairs) : key(its, it) < k }

\* The smallest key of a live item, 0 when there is none.
min_key(its, pairs) ==
    IF live_items(its, pairs) = {} THEN 0
    ELSE CHOOSE k \in { key(its, it) : it \in live_items(its, pairs) } :
             \A it \in live_items(its, pairs) : k <= key(its, it)

\* Threads between their load of m_global and their CAS on it.
in_cas_window(t) == pc[t] \in {"scas", "stake", "srepl"}

\* hist.overtaken[t]: a CAS of another thread on m_global succeeded since t
\* loaded m_global.  hist.peeks: the calls of peek in the last delete_min of
\* a dist_lsm_local.  hist.cascade: the merges of the last merge_insert.
\* hist.scan: what the last peek did to the block list.
NoCascade == [merges |-> 0, kept |-> 0]

HistInit ==
    [overtaken |-> [t \in Threads |-> FALSE], peeks |-> 0, cascade |-> NoCascade,
     scan |-> "none"]

\* The powers of two of a block list.
pows(blocks) == [i \in 1 .. Len(blocks) |-> blocks[i].pow]

\* What a peek that turns blocks (with the cached best cb) into p.blocks did:
\* no scan, undefined behaviour, a scan that rebuilt or removed blocks, or a
\* scan that left every block in its size class.
scan_of(its, blocks, cb, p) ==
    IF ~empty(cb) /\ ~taken(its, cb) THEN "none"
    ELSE IF p.ub THEN "ub"
    ELSE IF pows(p.blocks) # pows(blocks) THEN "rebuilt"
    ELSE "kept"

\* Threads are interchangeable: thread 2 starts its first operation after
\* thread 1 has started one.
may_start(t) == t = 1 \/ 1 \in active

\* The threads that call insert and delete_min: in the producer/consumer run
\* thread 1 only inserts and thread 2 only calls delete_min.
can_insert(t) == IF mode = "prodcons" THEN t = 1 ELSE may_start(t)

can_delete(t) == IF mode = "prodcons" THEN t = 2 ELSE may_start(t)

\* The queue is a k_lsm: dist_lsm_local::insert is handed the shared LSM.
has_slsm == mode \in {"klsm", "fill", "prodcons"}

\* Operations one run may start.
insert_budget ==
    CASE mode = "dlsm" -> MaxInserts
      [] mode = "slab" -> MaxSlabInserts
      [] mode = "klsm" -> MaxKInserts
      [] mode = "slsm" -> MaxSharedInserts
      [] mode = "fill" -> MaxFill
      [] mode = "prodcons" -> MaxProduced

delete_budget ==
    CASE mode = "dlsm" -> MaxDeletes
      [] mode = "slab" -> MaxSlabDeletes
      [] mode = "klsm" -> MaxKDeletes
      [] mode = "slsm" -> MaxSharedDeletes
      [] mode = "fill" -> 0
      [] mode = "prodcons" -> 1

(* ------------------------------ initial states ------------------------- *)

InitRest ==
    /\ m_ix = [t \in Threads |-> 0]
    /\ m_blocks = [t \in Threads |-> <<>>]
    /\ m_cached_best = [t \in Threads |-> EMPTY]
    /\ m_global = 0
    /\ arrays = [b \in Buffers |-> EmptyArray]
    /\ bufsel = [t \in Threads |-> 0]
    /\ pc = [t \in Threads |-> "idle"]
    /\ best = [t \in Threads |-> EMPTY]
    /\ pend = [t \in Threads |-> NoBlock]
    /\ keep = [t \in Threads |-> 0]
    /\ cur = [t \in Threads |-> 0]
    /\ m_local_array_copy = [t \in Threads |-> EmptyArray]
    /\ retries = [t \in Threads |-> 0]
    /\ out = [t \in Threads |-> 0]
    /\ result = [thread |-> 0, value |-> "none"]
    /\ aborted = FALSE
    /\ nIns = 0
    /\ nDel = 0
    /\ active = {}
    /\ numInserted = 0
    /\ numReturned = 0
    /\ takenPairs = {}
    /\ hist = HistInit
    /\ lazy = NoLazy
    /\ tree = NoTree
    /\ bench = NoBench

InitCommon ==
    /\ items = [c \in Cells |-> [key |-> 0, val |-> 0, version |-> 0]]
    /\ InitRest

\* dist_lsm: every thread has a dist_lsm_local, no shared LSM.
InitD == mode = "dlsm" /\ Rlx = 0 /\ InitCommon

\* dist_lsm on slabs of SmallSlab slots.
InitA == mode = "slab" /\ Rlx = 0 /\ InitCommon

\* shared_lsm used alone.
InitS == mode = "slsm" /\ Rlx = 0 /\ InitCommon

\* k_lsm: dist_lsm_local per thread with a shared_lsm handle.
InitK == mode = "klsm" /\ Rlx \in Relaxations /\ InitCommon

(* ------------------------------ operations ----------------------------- *)

slsmVars == <<m_global, arrays, bufsel, cur, m_local_array_copy>>

ghostTaken == <<numReturned, takenPairs>>

\* dist_lsm_local::insert(key, val, slsm).  With a block to publish the
\* operation goes on in shared_lsm::insert (SLoad, SCas).
Insert(t, k) ==
    /\ mode \in {"dlsm", "slab", "klsm", "fill", "prodcons"} /\ ~aborted
    /\ pc[t] = "idle" /\ nIns < insert_budget /\ can_insert(t)
    /\ can_acquire(items, t, m_ix[t])
    /\ LET a   == acquire(items, t, m_ix[t])
           its == initialize(items, a.item, k, ValOf(k))
           ver == version(its, a.item)
           r   == dlsm_insert(its, m_blocks[t], a.item, ver, has_slsm, Rlx)
       IN  /\ items' = its
           /\ m_ix' = [m_ix EXCEPT ![t] = a.ix]
           /\ m_cached_best' = [m_cached_best EXCEPT
                                   ![t] = insert_cached_best(its, @, a.item, ver)]
           /\ m_blocks' = [m_blocks EXCEPT ![t] = r.blocks]
           /\ hist' = [hist EXCEPT !.cascade =
                          IF can_append(its, m_blocks[t], k) THEN NoCascade
                          ELSE cascade_trace(its, m_blocks[t],
                                             block_insert(get_block(0), a.item, ver),
                                             Len(m_blocks[t]))]
           /\ IF r.publish
              THEN /\ pc' = [pc EXCEPT ![t] = "sload"]
                   /\ pend' = [pend EXCEPT ![t] = insert_copy(its, r.pend)]
                   /\ keep' = [keep EXCEPT ![t] = r.keep]
                   /\ UNCHANGED <<result, numInserted>>
              ELSE /\ result' = [thread |-> t, value |-> "inserted"]
                   /\ numInserted' = numInserted + 1
                   /\ UNCHANGED <<pc, pend, keep>>
    /\ nIns' = nIns + 1
    /\ active' = active \cup {t}
    /\ UNCHANGED <<bench, tree, lazy, mode, Rlx, slsmVars, best, retries, out, aborted, nDel, ghostTaken>>

\* shared_lsm::insert(key, val): a block of capacity 1 with the new item.
SInsert(t, k) ==
    /\ mode = "slsm" /\ ~aborted
    /\ pc[t] = "idle" /\ nIns < insert_budget /\ may_start(t)
    /\ can_acquire(items, t, m_ix[t])
    /\ LET a   == acquire(items, t, m_ix[t])
           its == initialize(items, a.item, k, ValOf(k))
       IN  /\ items' = its
           /\ m_ix' = [m_ix EXCEPT ![t] = a.ix]
           /\ pend' = [pend EXCEPT ![t] = block_insert(pool_block(get_block(0)), a.item,
                                                       version(its, a.item))]
    /\ keep' = [keep EXCEPT ![t] = 0]
    /\ pc' = [pc EXCEPT ![t] = "sload"]
    /\ nIns' = nIns + 1
    /\ active' = active \cup {t}
    /\ UNCHANGED <<bench, tree, lazy, mode, Rlx, m_blocks, m_cached_best, slsmVars, best, retries, out,
                   result, aborted, nDel, numInserted, ghostTaken, hist>>

\* shared_lsm::insert(block), step 2: load m_global and copy the array.
SLoad(t) ==
    /\ ~aborted /\ pc[t] = "sload"
    /\ cur' = [cur EXCEPT ![t] = m_global]
    /\ m_local_array_copy' = [m_local_array_copy EXCEPT ![t] = arrays[m_global]]
    /\ pc' = [pc EXCEPT ![t] = "scas"]
    /\ hist' = [hist EXCEPT !.overtaken[t] = FALSE]
    /\ UNCHANGED <<bench, tree, lazy, mode, Rlx, items, m_ix, m_blocks, m_cached_best, m_global, arrays,
                   bufsel, best, pend, keep, retries, out, result, aborted, nIns, nDel,
                   active, numInserted, ghostTaken>>

\* The record of a CAS on m_global by t.
cas_hist(t, won) ==
    IF won
    THEN [hist EXCEPT !.overtaken = [o \in Threads |->
                                        IF o # t /\ in_cas_window(o) THEN TRUE ELSE @[o]]]
    ELSE hist

\* shared_lsm::insert(block), steps 3 and 4: build the candidate in the
\* thread's buffer and CAS m_global from cur to it.  On success the insert
\* is complete (merge_insert then drops the merged blocks, m_size = other_ix + 1).
SCas(t) ==
    /\ ~aborted /\ pc[t] = "scas"
    /\ arrays' = [arrays EXCEPT ![candidate(t, bufsel[t])] =
                     insert_candidate(items, m_local_array_copy[t], pend[t])]
    /\ m_global' = compare_exchange(m_global, cur[t], candidate(t, bufsel[t])).value
    /\ IF compare_exchange(m_global, cur[t], candidate(t, bufsel[t])).ok
       THEN /\ bufsel' = [bufsel EXCEPT ![t] = 1 - @]
            /\ m_blocks' = [m_blocks EXCEPT ![t] = SubSeq(@, 1, keep[t])]
            /\ pend' = [pend EXCEPT ![t] = NoBlock]
            /\ keep' = [keep EXCEPT ![t] = 0]
            /\ pc' = [pc EXCEPT ![t] = "idle"]
            /\ result' = [thread |-> t, value |-> "inserted"]
            /\ numInserted' = numInserted + 1
            /\ hist' = cas_hist(t, TRUE)
       ELSE /\ pc' = [pc EXCEPT ![t] = "sload"]
            /\ hist' = cas_hist(t, FALSE)
            /\ UNCHANGED <<bufsel, m_blocks, pend, keep, result, numInserted>>
    /\ UNCHANGED <<bench, tree, lazy, mode, Rlx, items, m_ix, m_cached_best, cur, m_local_array_copy, best,
                   retries, out, aborted, nIns, nDel, active, ghostTaken>>

\* dist_lsm_local::delete_min / k_lsm::delete_min up to the take: the dLSM's
\* peek, the sLSM's minimum (k_lsm only) and the choice between the two.
DeleteMin(t) ==
    /\ mode \in {"dlsm", "slab", "klsm", "prodcons"} /\ ~aborted
    /\ pc[t] = "idle" /\ nDel < delete_budget /\ can_delete(t)
    /\ LET p == delete_min_peek(items, m_blocks[t], m_cached_best[t])
           s == IF has_slsm THEN minimum(items, arrays[m_global]) ELSE EMPTY
       IN  /\ m_blocks' = [m_blocks EXCEPT ![t] = p.blocks]
           /\ m_cached_best' = [m_cached_best EXCEPT ![t] = p.cached_best]
           /\ IF p.ub
              THEN /\ pc' = [pc EXCEPT ![t] = "ub"]
                   /\ aborted' \in BOOLEAN
                   /\ UNCHANGED <<best, result>>
              ELSE /\ aborted' = aborted
                   /\ \E c \in smaller_of(p.best, s) :
                        IF empty(c)
                        THEN /\ result' = [thread |-> t, value |-> "false"]
                             /\ UNCHANGED <<pc, best>>
                        ELSE /\ best' = [best EXCEPT ![t] = c]
                             /\ pc' = [pc EXCEPT ![t] = "take"]
                             /\ UNCHANGED result
    /\ hist' = [hist EXCEPT !.peeks = delete_min_peek(items, m_blocks[t],
                                                      m_cached_best[t]).peeks,
                             !.scan = scan_of(items, m_blocks[t], m_cached_best[t],
                                              delete_min_peek(items, m_blocks[t],
                                                              m_cached_best[t]))]
    /\ nDel' = IF mode = "prodcons" THEN nDel ELSE nDel + 1
    /\ active' = active \cup {t}
    /\ UNCHANGED <<bench, tree, lazy, mode, Rlx, items, m_ix, slsmVars, pend, keep, retries, out, nIns,
                   numInserted, ghostTaken>>

\* The bookkeeping of a version CAS by t on its candidate.
take_ghost(t, r) ==
    IF r.ok
    THEN /\ numReturned' = numReturned + 1
         /\ takenPairs' = takenPairs \cup {<<best[t].item, best[t].version>>}
    ELSE UNCHANGED <<numReturned, takenPairs>>

\* dist_lsm_local::delete_min / k_lsm::delete_min: the take.
Take(t) ==
    /\ ~aborted /\ pc[t] = "take"
    /\ LET r == delete_min_take(items, best[t], out[t])
       IN  /\ items' = r.items
           /\ out' = [out EXCEPT ![t] = r.val]
           /\ result' = [thread |-> t, value |-> IF r.ok THEN "true" ELSE "false"]
           /\ take_ghost(t, r)
    /\ pc' = [pc EXCEPT ![t] = "idle"]
    /\ best' = [best EXCEPT ![t] = EMPTY]
    /\ UNCHANGED <<bench, tree, lazy, mode, Rlx, m_ix, m_blocks, m_cached_best, slsmVars, pend, keep,
                   retries, aborted, nIns, nDel, active, numInserted, hist>>

\* shared_lsm::delete_min, steps 1 and 2: load m_global, find the minimum.
slsm_peek(t) ==
    /\ cur' = [cur EXCEPT ![t] = m_global]
    /\ m_local_array_copy' = [m_local_array_copy EXCEPT ![t] = arrays[m_global]]
    /\ IF empty(minimum(items, arrays[m_global]))
       THEN /\ result' = [thread |-> t, value |-> "false"]
            /\ pc' = [pc EXCEPT ![t] = "idle"]
            /\ hist' = hist
            /\ UNCHANGED best
       ELSE /\ best' = [best EXCEPT ![t] = minimum(items, arrays[m_global])]
            /\ pc' = [pc EXCEPT ![t] = "stake"]
            /\ hist' = [hist EXCEPT !.overtaken[t] = FALSE]
            /\ UNCHANGED result

\* shared_lsm::delete_min, the call.
SDeleteMin(t) ==
    /\ mode = "slsm" /\ ~aborted
    /\ pc[t] = "idle" /\ nDel < delete_budget /\ may_start(t)
    /\ nDel' = nDel + 1
    /\ active' = active \cup {t}
    /\ retries' = [retries EXCEPT ![t] = 0]
    /\ slsm_peek(t)
    /\ UNCHANGED <<bench, tree, lazy, mode, Rlx, items, m_ix, m_blocks, m_cached_best, m_global, arrays,
                   bufsel, pend, keep, out, aborted, nIns, numInserted, ghostTaken>>

\* shared_lsm::delete_min, a retry from step 1.
SRetry(t) ==
    /\ ~aborted /\ pc[t] = "speek"
    /\ slsm_peek(t)
    /\ UNCHANGED <<bench, tree, lazy, mode, Rlx, items, m_ix, m_blocks, m_cached_best, m_global, arrays,
                   bufsel, pend, keep, retries, out, aborted, nIns, nDel, active,
                   numInserted, ghostTaken>>

\* shared_lsm::delete_min, step 3: the version CAS on the winning item; a lost
\* CAS ends the call once the retries are exhausted.
STake(t) ==
    /\ ~aborted /\ pc[t] = "stake"
    /\ LET r == peek_t_take(items, best[t], out[t])
       IN  /\ items' = r.items
           /\ out' = [out EXCEPT ![t] = r.val]
           /\ take_ghost(t, r)
           /\ IF r.ok
              THEN /\ result' = [thread |-> t, value |-> "true"]
                   /\ pc' = [pc EXCEPT ![t] = "idle"]
                   /\ UNCHANGED retries
              ELSE /\ retries' = [retries EXCEPT ![t] = @ + 1]
                   /\ IF retries_exhausted(retries[t] + 1)
                      THEN /\ result' = [thread |-> t, value |-> "false"]
                           /\ pc' = [pc EXCEPT ![t] = "idle"]
                      ELSE /\ pc' = [pc EXCEPT ![t] = "srepl"]
                           /\ UNCHANGED result
    /\ best' = [best EXCEPT ![t] = EMPTY]
    /\ UNCHANGED <<bench, tree, lazy, mode, Rlx, m_ix, m_blocks, m_cached_best, slsmVars, pend, keep,
                   aborted, nIns, nDel, active, numInserted, hist>>

\* shared_lsm::delete_min, step 4: publish a replacement of the loaded array
\* with the stale entries removed, then retry.
SRepublish(t) ==
    /\ ~aborted /\ pc[t] = "srepl"
    /\ arrays' = [arrays EXCEPT ![candidate(t, bufsel[t])] =
                     remove_stale(items, m_local_array_copy[t])]
    /\ m_global' = compare_exchange(m_global, cur[t], candidate(t, bufsel[t])).value
    /\ IF compare_exchange(m_global, cur[t], candidate(t, bufsel[t])).ok
       THEN /\ bufsel' = [bufsel EXCEPT ![t] = 1 - @]
            /\ hist' = cas_hist(t, TRUE)
       ELSE /\ hist' = cas_hist(t, FALSE)
            /\ UNCHANGED bufsel
    /\ pc' = [pc EXCEPT ![t] = "speek"]
    /\ UNCHANGED <<bench, tree, lazy, mode, Rlx, items, m_ix, m_blocks, m_cached_best, cur,
                   m_local_array_copy, best, pend, keep, retries, out, result, aborted,
                   nIns, nDel, active, numInserted, ghostTaken>>

(* ------------------------------ specifications ------------------------- *)

NextD ==
    \E t \in Threads :
        \/ \E k \in Keys : Insert(t, k)
        \/ DeleteMin(t)
        \/ Take(t)

NextS ==
    \E t \in Threads :
        \/ \E k \in Keys : SInsert(t, k)
        \/ SLoad(t)
        \/ SCas(t)
        \/ SDeleteMin(t)
        \/ SRetry(t)
        \/ STake(t)
        \/ SRepublish(t)

NextK ==
    \E t \in Threads :
        \/ \E k \in Keys : Insert(t, k)
        \/ SLoad(t)
        \/ SCas(t)
        \/ DeleteMin(t)
        \/ Take(t)

\* dist_lsm alone.
SpecD == InitD /\ [][NextD]_vars

\* dist_lsm alone, on small slabs.
SpecA == InitA /\ [][NextD]_vars

\* shared_lsm alone.
SpecS == InitS /\ [][NextS]_vars

\* shared_lsm alone, with threads that keep taking steps.
SpecSL == InitS /\ [][NextS]_vars /\ WF_vars(NextS)

\* k_lsm.
SpecK == InitK /\ [][NextK]_vars

\* k_lsm with threads that only insert.
InitF == mode = "fill" /\ Rlx = 0 /\ InitCommon

NextF ==
    \E t \in Threads :
        \/ \E k \in Keys : Insert(t, k)
        \/ SLoad(t)
        \/ SCas(t)

SpecF == InitF /\ [][NextF]_vars

\* k_lsm with a producer (thread 1) that inserts MaxProduced items and a
\* consumer (thread 2) that keeps calling delete_min; the consumer's calls
\* are not counted.  Both threads are scheduled fairly.
InitPC == mode = "prodcons" /\ Rlx \in Relaxations /\ InitCommon

Producer == (\E k \in Keys : Insert(1, k)) \/ SLoad(1) \/ SCas(1)

Consumer == DeleteMin(2) \/ Take(2)

NextPC == Producer \/ Consumer

SpecPC == InitPC /\ [][NextPC]_vars /\ WF_vars(Producer) /\ WF_vars(Consumer)

\* A lazy_block over blocks whose pairs refer to the cells LazyCells, each
\* pair with the version 0: an item of version 1 has been taken.  The pair
\* left over in unused slots refers to LeftoverCell.
LazyItems ==
    { [c \in Cells |->
          IF c \in LazyCells \cup {LeftoverCell}
          THEN [key |-> LazyKey(c), val |-> ValOf(LazyKey(c)), version |-> v[c]]
          ELSE [key |-> 0, val |-> 0, version |-> 0]] :
      v \in [LazyCells \cup {LeftoverCell} -> {0, 1}] }

\* The pairs of the cells S in ascending order of the cells, which is
\* non-decreasing in key.
RECURSIVE ascending(_)
ascending(S) ==
    IF S = {} THEN <<>>
    ELSE LET m == CHOOSE x \in S : \A y \in S : x <= y
         IN  <<<<m, 0>>>> \o ascending(S \ {m})

\* The blocks that may be given to a lazy block: sorted, within capacity.
InputBlocks ==
    { b \in { [pairs |-> ascending(S), first |-> 0, pow |-> p, pool |-> "block_pool"] :
                 S \in SUBSET LazyCells, p \in 0 .. LazyPMax } :
        last(b) <= capacity(b) }

\* The cells a block's pairs refer to.
cells_of(b) == { b.pairs[i][1] : i \in 1 .. last(b) }

InitL == mode = "lazy" /\ Rlx = 0 /\ items \in LazyItems /\ InitRest

lazyOthers ==
    <<mode, Rlx, items, m_ix, m_blocks, m_cached_best, m_global, arrays, bufsel, pc,
      best, pend, keep, cur, m_local_array_copy, retries, out, result, aborted, nIns,
      nDel, active, numInserted, numReturned, takenPairs, hist, tree, bench>>

\* lazy_block::lazy_block(b, b_first)
LNew(b, b_first, slack) ==
    /\ mode = "lazy" /\ lazy.phase = "none"
    /\ lazy' = lazy_new(items, b, b_first, slack)
    /\ UNCHANGED lazyOthers

\* lazy_block::merge(b, b_first), with a block that shares no item with the
\* blocks given before.
LMerge(b, b_first, slack) ==
    /\ mode = "lazy" /\ lazy.phase = "open"
    /\ \A i \in 1 .. Len(lazy.given) : cells_of(lazy.given[i].b) \cap cells_of(b) = {}
    /\ lazy' = lazy_merge(items, lazy, b, b_first, slack)
    /\ UNCHANGED lazyOthers

\* lazy_block::finalize(pool)
LFinalize(slack) ==
    /\ mode = "lazy" /\ lazy.phase = "open"
    /\ lazy' \in finalize(items, lazy, slack)
    /\ UNCHANGED lazyOthers

NextL ==
    \E slack \in Slack :
        \/ \E b \in InputBlocks : \E b_first \in 0 .. last(b) : LNew(b, b_first, slack)
        \/ \E b \in InputBlocks : \E b_first \in 0 .. last(b) : LMerge(b, b_first, slack)
        \/ LFinalize(slack)

\* A lazy_block: construction, merges and finalize.
SpecL == InitL /\ [][NextL]_vars

\* interval_tree alone: inserts of indices, taken or not, and the two queries.
InitT ==
    /\ mode = "tree"
    /\ Rlx = 0
    /\ InitCommon

treeOthers ==
    <<mode, Rlx, items, m_ix, m_blocks, m_cached_best, m_global, arrays, bufsel, pc,
      best, pend, keep, cur, m_local_array_copy, retries, out, result, aborted, nIns,
      nDel, active, numInserted, numReturned, takenPairs, hist, lazy, bench>>

\* interval_tree::insert(index); the assertion on its result ends the run.
TInsert(index) ==
    /\ mode = "tree"
    /\ tree.phase = "ok"
    /\ tree' = tree_insert(tree, index)
    /\ UNCHANGED treeOthers

\* interval_tree::num_untaken_before(index)
TNumUntakenBefore(index) ==
    /\ mode = "tree"
    /\ tree.phase = "ok"
    /\ LET q == num_untaken_before(tree, index)
       IN  tree' = [tree EXCEPT
                       !.query = [op |-> "num_untaken_before", arg |-> index,
                                  value |-> q.value],
                       !.phase = IF q.asserted THEN "ok" ELSE "assert"]
    /\ UNCHANGED treeOthers

\* interval_tree::nth_untaken_ix(n)
TNthUntakenIx(n) ==
    /\ mode = "tree"
    /\ tree.phase = "ok"
    /\ tree' = [tree EXCEPT !.query = [op |-> "nth_untaken_ix", arg |-> n,
                                       value |-> nth_untaken_ix(tree, n)]]
    /\ UNCHANGED treeOthers

NextT ==
    \/ \E index \in Indices : TInsert(index)
    \/ \E index \in Indices \cup {MaxIndex + 1} : TNumUntakenBefore(index)
    \/ \E n \in NthArgs : TNthUntakenIx(n)

SpecT == InitT /\ [][NextT]_vars

\* The benchmark harness: bench and its bench_thread workers on a queue of
\* which only the number of items is kept.
InitB ==
    /\ mode = "bench"
    /\ Rlx = 0
    /\ InitCommon

benchOthers ==
    <<mode, Rlx, items, m_ix, m_blocks, m_cached_best, m_global, arrays, bufsel, pc,
      best, pend, keep, cur, m_local_array_copy, retries, out, result, aborted, nIns,
      nDel, active, numInserted, numReturned, takenPairs, hist, lazy, tree>>

\* bench: fill_barrier.store(nthreads) and the start of the threads.
BStart(nthreads, settings_size) ==
    /\ mode = "bench"
    /\ bench.phase = "none"
    /\ bench' = bench_start(bench, nthreads, settings_size)
    /\ UNCHANGED benchOthers

\* bench_thread: one insert of the initial fill.
BFill(thread_id) ==
    /\ mode = "bench"
    /\ thread_id \in DOMAIN bench.workers
    /\ bench.workers[thread_id].pc = "fill"
    /\ bench.workers[thread_id].i < bench.workers[thread_id].initial_size
    /\ bench' = [bench EXCEPT !.workers[thread_id].i = @ + 1, !.pq = @ + 1]
    /\ UNCHANGED benchOthers

\* bench_thread: the fill loop ends, fill_barrier.fetch_sub(1).
BFilled(thread_id) ==
    /\ mode = "bench"
    /\ thread_id \in DOMAIN bench.workers
    /\ bench.workers[thread_id].pc = "fill"
    /\ ~(bench.workers[thread_id].i < bench.workers[thread_id].initial_size)
    /\ bench' = [bench EXCEPT !.workers[thread_id].pc = "wait",
                              !.fill_barrier = @ - 1]
    /\ UNCHANGED benchOthers

\* bench_thread: the wait on start_barrier ends.
BGo(thread_id) ==
    /\ mode = "bench"
    /\ thread_id \in DOMAIN bench.workers
    /\ bench.workers[thread_id].pc = "wait"
    /\ bench.start_barrier
    /\ bench' = [bench EXCEPT !.workers[thread_id].pc = "loop"]
    /\ UNCHANGED benchOthers

\* bench_thread: one iteration of the measured loop. workload.insert()
\* decides the operation; delete_min may fail on a queue that holds items.
BOp(thread_id, op, ret) ==
    /\ mode = "bench"
    /\ thread_id \in DOMAIN bench.workers
    /\ bench.workers[thread_id].pc = "loop"
    /\ ~bench.end_barrier
    /\ bench.workers[thread_id].iterations < MaxOps
    /\ op = "insert" => ret
    /\ (op = "delete_min" /\ ret) => bench.pq > 0
    /\ bench' = [bench EXCEPT
                    !.workers[thread_id].COUNTERS = count_op(@, op, ret),
                    !.workers[thread_id].iterations = @ + 1,
                    !.pq = IF op = "insert" THEN @ + 1
                           ELSE IF ret THEN @ - 1 ELSE @,
                    !.last = [thread_id |-> thread_id, op |-> op, ret |-> ret]]
    /\ UNCHANGED benchOthers

\* bench_thread: the loop sees end_barrier, result.set_value(kpq::COUNTERS).
BExit(thread_id) ==
    /\ mode = "bench"
    /\ thread_id \in DOMAIN bench.workers
    /\ bench.workers[thread_id].pc = "loop"
    /\ bench.end_barrier
    /\ bench' = [bench EXCEPT !.workers[thread_id].pc = "done",
                              !.workers[thread_id].result =
                                  bench.workers[thread_id].COUNTERS]
    /\ UNCHANGED benchOthers

\* bench: the wait on fill_barrier ends, start_barrier.store(true).
BBegin ==
    /\ mode = "bench"
    /\ bench.phase = "fill"
    /\ fill_done(bench)
    /\ bench' = [bench EXCEPT !.phase = "run", !.start_barrier = TRUE]
    /\ UNCHANGED benchOthers

\* bench: the sleep is over, end_barrier.store(true).
BEnd ==
    /\ mode = "bench"
    /\ bench.phase = "run"
    /\ bench' = [bench EXCEPT !.phase = "join", !.end_barrier = TRUE]
    /\ UNCHANGED benchOthers

\* bench: every thread joined, the futures' counters added up.
BReport ==
    /\ mode = "bench"
    /\ bench.phase = "join"
    /\ \A thread_id \in DOMAIN bench.workers : bench.workers[thread_id].pc = "done"
    /\ bench' = [bench EXCEPT
                    !.phase = "done",
                    !.counters = counters_sum([thread_id \in DOMAIN bench.workers |->
                                                  bench.workers[thread_id].result],
                                              bench.nthreads)]
    /\ UNCHANGED benchOthers

NextB ==
    \/ \E nthreads \in 1 .. MaxWorkers, settings_size \in 1 .. MaxSize :
           BStart(nthreads, settings_size)
    \/ \E thread_id \in 0 .. (MaxWorkers - 1) :
           \/ BFill(thread_id)
           \/ BFilled(thread_id)
           \/ BGo(thread_id)
           \/ \E op \in {"insert", "delete_min"}, ret \in BOOLEAN : BOp(thread_id, op, ret)
           \/ BExit(thread_id)
    \/ BBegin
    \/ BEnd
    \/ BReport

SpecB == InitB /\ [][NextB]_vars

(* ------------------------------ properties ----------------------------- *)

\* The step in which thread t calls delete_min (DeleteMin or SDeleteMin of t):
\* the call either leaves t inside the operation or returns at once.
calls_delete_min(t) ==
    /\ pc[t] = "idle"
    /\ nDel' = nDel + 1
    /\ (pc'[t] # "idle" \/ (pc' = pc /\ result'.thread = t))

\* The step in which thread t selects the candidate of a delete_min.
selects(t) == pc[t] = "idle" /\ pc'[t] = "take"

\* The step in which the version CAS of thread t's delete_min succeeds.
takes(t) == pc[t] \in {"take", "stake"} /\ pc'[t] # pc[t] /\ numReturned' = numReturned + 1

\* The pair thread t is about to take.
best_pair(t) == <<best[t].item, best[t].version>>

\* C1: under any interleaving of insert and delete_min, no two successful
\* delete_min calls take the same (item, version) pair: the successful
\* delete_mins are as many as the distinct pairs they took.
C1_TakenOnce == numReturned = Cardinality(takenPairs)

\* Two delete_mins selected the same pair and one of them has taken it.
C1_Witness == \E t \in Threads : pc[t] = "take" /\ best_pair(t) \in takenPairs

\* C2: in every reachable state the items returned by successful delete_mins
\* plus the live items referenced from some thread's block list or from the
\* published block array are as many as the completed inserts.
C2_Conservation == numReturned + Cardinality(LiveItems) = numInserted

C4_ReturnsSmallest ==
    [][\A t \in Threads :
          selects(t) => best'[t].key = min_key(items, dlsm_pairs(m_blocks[t]))]_vars

\* C5: a delete_min called while the queue holds no live item returns false
\* and completes normally.
C5_EmptyReturnsFalse ==
    [][\A t \in Threads :
          (calls_delete_min(t) /\ LiveItems = {}) =>
              /\ pc'[t] = "idle"
              /\ result' = [thread |-> t, value |-> "false"]
              /\ ~aborted']_vars

\* C6: in the producer/consumer run, under fair scheduling, the consumer
\* eventually observes as many successful delete_mins as the producer
\* inserted items.
C6_AllConsumed == <>(numReturned = MaxProduced)

\* Threads inside an operation.
busy == { t \in Threads : pc[t] # "idle" }

\* A thread whose CAS on m_global would fail has been overtaken by another
\* thread's successful CAS since its load; a thread whose version CAS would
\* fail holds a pair that a successful version CAS has taken.
C7_FailedCasWasOvertaken ==
    \A t \in Threads :
        /\ (in_cas_window(t) /\ m_global # cur[t]) => hist.overtaken[t]
        /\ (pc[t] = "stake" /\ taken(items, best[t])) => best_pair(t) \in takenPairs

\* C7: the sLSM is lock-free: a CAS (on the global block array pointer or on
\* an item version) fails only after another thread's CAS on the same
\* location succeeded since the failing thread's load, and under fair
\* scheduling every started insert or delete_min returns.
C7_LockFree ==
    /\ []C7_FailedCasWasOvertaken
    /\ (busy # {}) ~> (busy = {})

\* A thread is about to fail its CAS on m_global, overtaken by the other one.
C7_Witness ==
    \E t \in Threads : in_cas_window(t) /\ m_global # cur[t] /\ hist.overtaken[t]

\* C8: an sLSM delete_min returns true after a successful version CAS, returns
\* false after finding no candidate or after MaxRetries failed attempts, and
\* never goes on after MaxRetries failed attempts.
C8_BoundedRetries ==
    [][\A t \in Threads :
          /\ retries'[t] <= MaxRetries
          /\ pc'[t] \in {"speek", "stake", "srepl"} => retries'[t] < MaxRetries
          /\ (pc[t] = "stake" /\ pc'[t] # "stake") =>
                 IF takes(t)
                 THEN pc'[t] = "idle" /\ result' = [thread |-> t, value |-> "true"]
                 ELSE /\ retries'[t] = retries[t] + 1
                      /\ pc'[t] = "idle" =>
                             /\ retries'[t] = MaxRetries
                             /\ result' = [thread |-> t, value |-> "false"]
          /\ ((calls_delete_min(t) \/ pc[t] = "speek") /\ pc'[t] = "idle") =>
                 /\ result' = [thread |-> t, value |-> "false"]
                 /\ empty(minimum(items, arrays[m_global]))]_vars

\* A delete_min has returned false after MaxRetries failed attempts.
C8_Witness ==
    \E t \in Threads :
        /\ pc[t] = "idle" /\ retries[t] = MaxRetries
        /\ result = [thread |-> t, value |-> "false"]

\* C9: item.take(expected, out) succeeds iff the item's version equals expected;
\* on success the version becomes expected + 1 and out receives the item's
\* value; on failure the version and out are unchanged.  No step decreases
\* the version of an item.
C9_Take ==
    [][/\ \A t \in Threads :
              (pc[t] \in {"take", "stake"} /\ pc'[t] # pc[t]) =>
                  IF version(items, best[t].item) = best[t].version
                  THEN /\ takes(t)
                       /\ version(items', best[t].item) = best[t].version + 1
                       /\ out'[t] = items[best[t].item].val
                  ELSE /\ ~takes(t)
                       /\ items' = items
                       /\ out'[t] = out[t]
       /\ \A it \in Cells : version(items', it) >= version(items, it)]_vars

\* A take has failed in a thread whose out holds the value of an earlier take.
C9_Witness == \E t \in Threads : pc[t] = "srepl" /\ retries[t] >= 1 /\ out[t] # 0

\* C10: no step writes the block array that m_global points to: its slots
\* and the blocks in them change only in a thread's candidate buffer.
C10_PublishedReadOnly == [][arrays'[m_global] = arrays[m_global]]_vars

\* After a lost CAS a thread holds a candidate array that differs from the
\* published one.
C10_Witness ==
    \E t \in Threads :
        /\ pc[t] \in {"sload", "speek"} /\ hist.overtaken[t]
        /\ candidate(t, bufsel[t]) # m_global
        /\ arrays[candidate(t, bufsel[t])] \notin {EmptyArray, arrays[m_global]}

\* C11: a CAS of m_global from cur to the candidate succeeds only if the
\* published contents are unchanged since the thread loaded cur: whenever a
\* thread about to CAS still finds its cur in m_global, the array at cur is
\* the one it copied at the load.
C11_NoABA ==
    \A t \in Threads :
        (pc[t] \in {"scas", "srepl"} /\ compare_exchange(m_global, cur[t],
                                                          candidate(t, bufsel[t])).ok)
            => arrays[m_global] = m_local_array_copy[t]

dlsm_best(t) == delete_min_peek(items, m_blocks[t], m_cached_best[t])

slsm_minimum == minimum(items, arrays[m_global])

\* The choice of a k_lsm delete_min of t between the reported candidates d
\* and s: false when both are empty, else the take of a non-empty one whose
\* key is not larger than the other's.
chooses(t, d, s) ==
    IF empty(d) /\ empty(s)
    THEN pc'[t] = "idle" /\ result' = [thread |-> t, value |-> "false"]
    ELSE /\ pc'[t] = "take"
         /\ best'[t] \in ({d, s} \ {EMPTY})
         /\ \A c \in {d, s} \ {EMPTY} : best'[t].key <= c.key

\* C13: a k_lsm delete_min attempts to take the candidate with the smaller
\* key among the calling thread's dLSM best and the sLSM minimum, the
\* non-empty one when exactly one is non-empty, and returns false when both
\* are empty (the dLSM holds no live item and the sLSM has no minimum).
C13_TakesSmaller ==
    [][\A t \in Threads :
          (has_slsm /\ calls_delete_min(t)) =>
              IF dlsm_best(t).ub
              THEN empty(slsm_minimum) =>
                       (pc'[t] = "idle" /\ result' = [thread |-> t, value |-> "false"])
              ELSE chooses(t, dlsm_best(t).best, slsm_minimum)]_vars

\* The part of C13 that holds: whenever the dLSM's peek returns, the choice
\* between its best and the sLSM minimum is as C13 states.
C13_ChoiceOfReported ==
    [][\A t \in Threads :
          (has_slsm /\ calls_delete_min(t) /\ ~dlsm_best(t).ub) =>
              chooses(t, dlsm_best(t).best, slsm_minimum)]_vars

\* C14: no published block array references a block of a dLSM's block
\* storage: shared_lsm::insert publishes a copy in a block of its own pool, so
\* the caller's set_unused and reuse of the passed block cannot change what
\* is visible through the sLSM.
C14_PublishedBlocksOwned ==
    \A p \in Powers :
        arrays[m_global][p] # NoBlock => arrays[m_global][p].pool = "block_pool"

\* A block handed over by a dLSM's merge_insert has been published and the
\* dLSM has gone on to fill its block list again.
C14_Witness ==
    \E t \in Threads :
        /\ pc[t] = "idle" /\ numInserted >= 2
        /\ m_blocks[t] # <<>>
        /\ \E p \in Powers : arrays[m_global][p] # NoBlock

\* The step in which thread t calls insert (Insert or SInsert of t).
calls_insert(t) ==
    /\ pc[t] = "idle"
    /\ nIns' = nIns + 1
    /\ (pc'[t] = "sload" \/ (pc' = pc /\ result' = [thread |-> t, value |-> "inserted"]))

\* C15: the item allocator never hands out, for a new insert, an item whose
\* current (item, version) pair is live in some block.
C15_AcquiredNotLive ==
    [][\A t \in Threads :
          calls_insert(t) => acquire(items, t, m_ix[t]).item \notin LiveItems]_vars

\* The thread that takes this step.
acts(t) == pc'[t] # pc[t] \/ (pc' = pc /\ result'.thread = t)

\* C16: a thread's dLSM block list and cached best are written only by the
\* owning thread: no step of a thread changes another thread's m_blocks or
\* m_cached_best, and no delete_min calls peek a second time (spy returns 0).
C16_OwnerOnly ==
    [][\A t \in Threads :
          acts(t) =>
              /\ \A o \in Threads \ {t} :
                     /\ m_blocks'[o] = m_blocks[o]
                     /\ m_cached_best'[o] = m_cached_best[o]
              /\ hist'.peeks <= 1]_vars

\* A delete_min has returned false to a thread whose own dLSM is empty while
\* another thread's dLSM holds a live item.
C16_Witness ==
    \E t \in Threads :
        /\ pc[t] = "idle" /\ result = [thread |-> t, value |-> "false"]
        /\ hist.peeks = 1
        /\ m_blocks[t] = <<>>
        /\ \E o \in Threads \ {t} : live_items(items, dlsm_pairs(m_blocks[o])) # {}

\* C17: in every dLSM, consecutive blocks of the list m_blocks[0 .. m_size)
\* have strictly decreasing capacities.
C17_DecreasingCapacities ==
    \A t \in Threads :
        \A i \in 1 .. (Len(m_blocks[t]) - 1) :
            capacity(m_blocks[t][i]) > capacity(m_blocks[t][i + 1])

\* After inserts and successful delete_mins a dLSM holds two or more blocks,
\* the first one rebuilt by a merge or a shrink while the list had a
\* smaller block to its right.
C17_Witness ==
    \E t \in Threads :
        /\ numReturned >= 1
        /\ Len(m_blocks[t]) >= 2
        /\ m_blocks[t][1].pow >= 1
        /\ last(m_blocks[t][1]) < capacity(m_blocks[t][1])

\* The keys of the owned entries of b within [first, last), in index order.
owned_keys(its, b) == [i \in 1 .. Len(live(its, b)) |-> key(its, live(its, b)[i][1])]

\* The blocks of the structure: every dLSM's list, the blocks handed to the
\* sLSM and the blocks of the published array.
AllBlocks ==
    UNION { Range(m_blocks[t]) : t \in Threads }
        \cup ({ pend[t] : t \in Threads } \ {NoBlock})
        \cup ({ arrays[m_global][p] : p \in Powers } \ {NoBlock})

C19_CachedBestIsMinimum ==
    \A t \in Threads :
        (~empty(m_cached_best[t]) /\ ~taken(items, m_cached_best[t])) =>
            smaller_items(items, dlsm_pairs(m_blocks[t]), m_cached_best[t].key) = {}

\* The step in which thread t's insert calls merge_insert (the tail-append
\* path is not taken), and the block the merge loop of that call ends with.
calls_merge_insert(t) ==
    /\ calls_insert(t)
    /\ ~can_append(items', m_blocks[t], key(items', acquire(items, t, m_ix[t]).item))

merged_block(t) ==
    merge_cascade(items', m_blocks[t],
                  block_insert(get_block(0), acquire(items, t, m_ix[t]).item,
                               version(items', acquire(items, t, m_ix[t]).item)),
                  Len(m_blocks[t])).block

\* ceil(n / 2)
ceil_half(n) == (n + 1) \div 2

C21_BelowThreshold ==
    has_slsm =>
        \A t \in Threads :
            \A i \in 1 .. Len(m_blocks[t]) : size(m_blocks[t][i]) < (Rlx + 1) \div 2

\* The merge loop as C22 states it, on the power of two and the size of
\* insert_block: it merges with blocks[ix] while the capacities are equal,
\* into the next power of two only if the two sizes exceed the capacity.
RECURSIVE cascade_as_stated(_, _, _, _, _)
cascade_as_stated(its, blocks, pow, sz, ix) ==
    IF ix >= 1 /\ Pow2(pow) = capacity(blocks[ix])
    THEN cascade_as_stated(its, blocks,
                           IF sz + size(blocks[ix]) > Pow2(pow) THEN pow + 1 ELSE pow,
                           sz + Len(live(its, blocks[ix])), ix - 1)
    ELSE [pow |-> pow, ix |-> ix]

\* C22: in merge_insert's cascade two equal-capacity blocks of power p are
\* merged into a block of power p + 1 only if their sizes together exceed the
\* capacity, else into a block of power p, and the cascade goes on exactly
\* while the preceding block has the capacity of the current merged block:
\* the block a merge_insert ends with, and the blocks it leaves in the list,
\* are the ones this rule gives.
C22_Cascade ==
    [][\A t \in Threads :
          calls_merge_insert(t) =>
              LET c == cascade_as_stated(items', m_blocks[t], 0, 1, Len(m_blocks[t]))
              IN  IF pc'[t] = "sload"
                  THEN pend'[t].pow = c.pow /\ keep'[t] = c.ix
                  ELSE /\ Len(m_blocks'[t]) = c.ix + 1
                       /\ m_blocks'[t][c.ix + 1].pow = c.pow
                       /\ SubSeq(m_blocks'[t], 1, c.ix) = SubSeq(m_blocks[t], 1, c.ix)]_vars

\* A merge_insert has made two or more merges in one cascade, one into the
\* next power of two and one that kept the power of two.
C22_Witness ==
    /\ hist.cascade.merges >= 2
    /\ hist.cascade.kept >= 1
    /\ hist.cascade.kept < hist.cascade.merges

\* The blocks of the dLSMs: every thread's list and the blocks its
\* merge_insert hands over.
DlsmBlocks ==
    UNION { Range(m_blocks[t]) : t \in Threads } \cup ({ pend[t] : t \in Threads } \ {NoBlock})

\* C23: no dLSM operation writes past a block's capacity: every block has
\* first <= last <= capacity with the capacity 2^power_of_2 of a size class,
\* so the destination of every merge, shrink copy and tail-append holds all
\* the entries written into it.
C23_WithinCapacity ==
    \A b \in DlsmBlocks :
        /\ b.pow \in Powers
        /\ 0 <= b.first
        /\ b.first <= last(b)
        /\ last(b) <= capacity(b)

\* A merge has filled its destination, a block of capacity 4 or more, to the
\* last slot.
C23_Witness ==
    \E b \in DlsmBlocks : b.pow >= 2 /\ last(b) = capacity(b)

\* The step in which thread t's delete_min runs peek's full scan of the block
\* list (the cached best is empty or taken) and peek returns.
scans(t) ==
    /\ calls_delete_min(t)
    /\ empty(m_cached_best[t]) \/ taken(items, m_cached_best[t])
    /\ pc'[t] # "ub"

\* C24: after a peek that performs the full scan, every block remaining in
\* the list is non-empty and more than half full (size() > capacity() / 2),
\* and the list still holds exactly the items that were live before: blocks
\* at most half full were rebuilt from their live entries and empty blocks
\* were removed.
C24_HalfFullAfterScan ==
    [][\A t \in Threads :
          scans(t) =>
              /\ \A i \in 1 .. Len(m_blocks'[t]) :
                     /\ size(m_blocks'[t][i]) > 0
                     /\ size(m_blocks'[t][i]) > capacity(m_blocks'[t][i]) \div 2
              /\ live_items(items, dlsm_pairs(m_blocks'[t]))
                     = live_items(items, dlsm_pairs(m_blocks[t]))]_vars

\* The full scan of the only thread that holds blocks has rebuilt its block
\* list, two blocks remain, each more than half full, and a candidate was
\* found.
C24_Witness ==
    \E t \in Threads :
        /\ hist.scan = "rebuilt" /\ pc[t] = "take"
        /\ Len(m_blocks[t]) >= 2
        /\ \A o \in Threads \ {t} : m_blocks[o] = <<>>

\* C25: during peek every m_blocks[ix] that is dereferenced has ix < m_size
\* and every memmove length m_size - ix - 1 is non-negative: no delete_min
\* reaches the re-read of a slot at or beyond m_size after the jump to 'outer'.
C25_PeekInBounds == \A t \in Threads : pc[t] # "ub"

\* peek of thread t's dLSM has no live candidate to find: the cached best is
\* empty or taken and no block of the list holds an owned entry.
no_candidate(t) ==
    /\ empty(m_cached_best[t]) \/ taken(items, m_cached_best[t])
    /\ live_items(items, dlsm_pairs(m_blocks[t])) = {}

\* The step in which thread t's delete_min returns after its version CAS.
returns_from_take(t) == pc[t] = "take" /\ pc'[t] # "take"

\* What C26 states of the version CAS: the call returns with its outcome,
\* false exactly when the candidate was taken in the meantime, without a retry.
take_decides(t) ==
    returns_from_take(t) =>
        /\ pc'[t] = "idle"
        /\ result'.thread = t
        /\ result'.value = (IF taken(items, best[t]) THEN "false" ELSE "true")

\* C26: a dLSM delete_min returns false exactly when peek finds no live
\* candidate or when the version CAS on the selected candidate fails: a call
\* with no live candidate returns false at once, a call with one goes on to
\* the version CAS, and the CAS decides the result without a retry.
C26_FalseIffNoCandidateOrLostCas ==
    [][\A t \in Threads :
          /\ (~has_slsm /\ calls_delete_min(t)) =>
                 IF no_candidate(t)
                 THEN pc'[t] = "idle" /\ result' = [thread |-> t, value |-> "false"]
                 ELSE pc'[t] = "take" /\ ~taken(items, best'[t])
          /\ take_decides(t)]_vars

\* The part of C26 that holds: a delete_min whose peek returns gives false at
\* once exactly when peek reports no candidate, and the version CAS decides
\* the result without a retry.
C26_FalseOfReported ==
    [][\A t \in Threads :
          /\ (~has_slsm /\ calls_delete_min(t) /\ ~dlsm_best(t).ub) =>
                 IF empty(dlsm_best(t).best)
                 THEN pc'[t] = "idle" /\ result' = [thread |-> t, value |-> "false"]
                 ELSE pc'[t] = "take" /\ best'[t] = dlsm_best(t).best
          /\ take_decides(t)]_vars

\* finalize has returned a block it acquired from the pool and filled.
finalized_merge == lazy.phase = "done" /\ lazy.acquired

\* The pairs at the indexes below last() of the blocks given to the lazy block.
input_pairs == UNION { { g.b.pairs[i] : i \in 1 .. last(g.b) } : g \in Range(lazy.given) }

\* C27: lazy_block.finalize writes only live entries into its output: every
\* pair within [0, last) of the block it returns is owned and comes from an
\* index below last() of a block given to the lazy block; stale entries, at
\* the tail of an input block too, are skipped.
C27_OnlyLiveEntries ==
    finalized_merge =>
        \A i \in 1 .. last(lazy.out) :
            /\ item_owned(items, lazy.out.pairs[i])
            /\ lazy.out.pairs[i] \in input_pairs

\* The owned pairs of the blocks given to the lazy block, from the start
\* index given with each block.
live_input_pairs ==
    UNION { { g.b.pairs[i] : i \in { j \in (g.first + 1) .. last(g.b) :
                                      item_owned(items, g.b.pairs[j]) } } :
            g \in Range(lazy.given) }

\* The number of times the pair q is in the block b.
occurrences(b, q) == Cardinality({ i \in 1 .. last(b) : b.pairs[i] = q })

\* C28: for sorted input blocks the block returned by finalize contains each
\* live input entry, from the start index given with its block, exactly once,
\* in non-decreasing key order, with last at most capacity().
C28_EachLiveEntryOnce ==
    lazy.phase = "done" =>
        /\ \A q \in live_input_pairs : occurrences(lazy.out, q) = 1
        /\ \A i \in 1 .. (last(lazy.out) - 1) :
               item_owned(items, lazy.out.pairs[i]) /\ item_owned(items, lazy.out.pairs[i + 1])
                   => key(items, lazy.out.pairs[i][1]) <= key(items, lazy.out.pairs[i + 1][1])
        /\ last(lazy.out) <= capacity(lazy.out)

\* No block given to the lazy block ends in a stale pair: the range from its
\* start index is empty or its last pair is owned.
no_stale_tail ==
    \A g \in Range(lazy.given) :
        g.first >= last(g.b) \/ item_owned(items, g.b.pairs[last(g.b)])

\* The part of C28 that holds: when no input block ends in a stale pair, the
\* block finalize returns after a merge holds exactly the live input entries,
\* each once, in non-decreasing key order, within its capacity.
C28_OfOwnedTails ==
    (finalized_merge /\ no_stale_tail) =>
        /\ \A q \in live_input_pairs : occurrences(lazy.out, q) = 1
        /\ \A i \in 1 .. last(lazy.out) : lazy.out.pairs[i] \in live_input_pairs
        /\ \A i \in 1 .. (last(lazy.out) - 1) :
               key(items, lazy.out.pairs[i][1]) <= key(items, lazy.out.pairs[i + 1][1])
        /\ last(lazy.out) <= capacity(lazy.out)

\* The step in which finalize is called on the lazy block.
finalizes == lazy.phase = "open" /\ lazy'.phase # "open" /\ lazy'.given = lazy.given

\* The blocks given to the lazy block.
given_blocks == { g.b : g \in Range(lazy.given) }

\* C29: finalize returns the input block itself, without acquiring a block
\* from the pool, iff exactly one block was given to the lazy block; when two
\* or more blocks were given it returns a pool block whose power_of_2 is the
\* lazy block's power_of_2().
C29_InputIffOneGiven ==
    [][finalizes =>
          /\ Len(lazy.given) = 1 =>
                 /\ lazy'.phase = "done" /\ ~lazy'.acquired
                 /\ lazy'.out = lazy.given[1].b
          /\ (Len(lazy.given) >= 2 /\ lazy'.phase = "done") =>
                 /\ lazy'.acquired
                 /\ lazy'.out \notin given_blocks
                 /\ lazy'.out.pow = lazy.m_power_of_2]_vars

\* The part of C29 that holds: finalize returns a given block itself, without
\* acquiring one, iff exactly one of the given blocks has left a head in
\* m_heads; with two or more heads the block it returns is a pool block of
\* the lazy block's power_of_2().
C29_InputIffOneHead ==
    [][finalizes =>
          /\ Len(lazy.m_heads) = 1 <=>
                 /\ lazy'.phase = "done" /\ ~lazy'.acquired
                 /\ lazy'.out = lazy.m_heads[1].b
          /\ (Len(lazy.m_heads) >= 2 /\ lazy'.phase = "done") =>
                 /\ lazy'.acquired
                 /\ lazy'.out \notin given_blocks
                 /\ lazy'.out.pow = lazy.m_power_of_2]_vars

\* The step in which merge is called on the lazy block, and the block given.
merges == lazy.phase = "open" /\ Len(lazy'.given) = Len(lazy.given) + 1

merged_in == lazy'.given[Len(lazy'.given)].b

C31_NoUnfilledHeadRead ==
    [][(finalizes /\ Len(lazy.m_heads) = 0) =>
          /\ lazy'.phase = "done"
          /\ last(lazy'.out) = 0]_vars


\* The indices held by the subtree of node n, counted interval by interval,
\* and the indices themselves.
RECURSIVE subtree_count(_, _)
subtree_count(t, n) ==
    IF n = nullptr THEN 0
    ELSE subtree_count(t, t.nodes[n].l) + (t.nodes[n].k2 - t.nodes[n].k1 + 1)
         + subtree_count(t, t.nodes[n].r)

RECURSIVE inorder(_, _)
inorder(t, n) ==
    IF n = nullptr THEN <<>>
    ELSE inorder(t, t.nodes[n].l) \o <<n>> \o inorder(t, t.nodes[n].r)

\* The height of the subtree of node n, from the child links alone.
RECURSIVE subtree_height(_, _)
subtree_height(t, n) ==
    IF n = nullptr THEN -1
    ELSE LET hl == subtree_height(t, t.nodes[n].l)
             hr == subtree_height(t, t.nodes[n].r)
         IN  1 + (IF hl >= hr THEN hl ELSE hr)

rotations == {"right-left", "right-right", "left-right", "left-left"}

C33_MaximalIntervals ==
    tree.phase = "ok" =>
        LET o == inorder(tree, tree.m_root)
        IN  /\ \A n \in DOMAIN tree.nodes : tree.nodes[n].k1 <= tree.nodes[n].k2
            /\ \A i \in 1 .. (Len(o) - 1) :
                   tree.nodes[o[i]].k2 + 1 < tree.nodes[o[i + 1]].k1
            /\ UNION { tree.nodes[n].k1 .. tree.nodes[n].k2 : n \in DOMAIN tree.nodes }
                   = tree.inserted

\* An insert has joined two intervals into one of at least five indices while
\* other intervals remain.
C33_Witness ==
    /\ tree.phase = "ok"
    /\ "merge" \in tree.ev
    /\ Len(tree.nodes) >= 3
    /\ \E n \in DOMAIN tree.nodes : tree.nodes[n].k2 - tree.nodes[n].k1 >= 4

\* C34: after every insert the tree is an AVL tree: the heights of the two
\* subtrees of a node differ by at most 1 and its h is 1 + max(child heights),
\* a leaf having 0; also after an insert that merges two intervals and
\* removes a node.
C34_Avl ==
    tree.phase = "ok" =>
        \A n \in DOMAIN tree.nodes :
            /\ abs(subtree_height(tree, tree.nodes[n].l)
                   - subtree_height(tree, tree.nodes[n].r)) <= 1
            /\ tree.nodes[n].h = subtree_height(tree, n)

\* An insert has removed a node and rotated, leaving a tree of height 2.
C34_Witness ==
    /\ tree.phase = "ok"
    /\ "remove" \in tree.ev
    /\ tree.ev \cap rotations # {}
    /\ tree.m_root # nullptr
    /\ tree.nodes[tree.m_root].h = 2


\* The n-th smallest index, counting from 0, that is not in the set S.
nth_not_in(S, n) ==
    CHOOSE i \in 0 .. (n + Cardinality(S)) :
        i \notin S /\ Cardinality({ j \in 0 .. (i - 1) : j \notin S }) = n

\* C35: for every set S of inserted indices and every n >= 0,
\* nth_untaken_ix(n) returns the index i not in S such that exactly n indices
\* smaller than i are not in S; on an empty tree it returns n.
C35_NthUntaken ==
    (tree.phase = "ok" /\ tree.query.op = "nth_untaken_ix") =>
        /\ tree.query.value = nth_not_in(tree.inserted, tree.query.arg)
        /\ tree.m_root = nullptr => tree.query.value = tree.query.arg

\* The part of C35 that holds: nth_untaken_ix(n) returns the n-th smallest
\* untaken index whenever that index fits an int.
C35_NthUntakenInInt ==
    (/\ tree.phase = "ok"
     /\ tree.query.op = "nth_untaken_ix"
     /\ nth_not_in(tree.inserted, tree.query.arg) <= INT_MAX) =>
        tree.query.value = nth_not_in(tree.inserted, tree.query.arg)


\* C36: num_untaken_before(index) returns the number of untaken items before
\* the index, that is index minus the number of inserted indices smaller than
\* index, for every tree state and every index.
C36_UntakenBefore ==
    tree.query.op = "num_untaken_before" =>
        /\ tree.phase = "ok"
        /\ tree.query.value
               = tree.query.arg
                 - Cardinality({ i \in tree.inserted : i < tree.query.arg })

\* The part of C36 that holds: when every inserted index is smaller than
\* index, num_untaken_before(index) passes its assertion and returns index
\* minus the number of inserted indices.
C36_OfIndexPastTaken ==
    (/\ tree.query.op = "num_untaken_before"
     /\ \A i \in tree.inserted : i < tree.query.arg) =>
        /\ tree.phase = "ok"
        /\ tree.query.value = tree.query.arg - Cardinality(tree.inserted)


\* The step in which insert is called with an index that is in the tree.
inserts_taken ==
    /\ tree.phase = "ok"
    /\ tree'.phase # "ok"
    /\ tree'.query = NoQuery
    /\ tree'.inserted = tree.inserted
    /\ tree'.ev = {}

\* C37: inserting an index that is already in the tree is reported as an
\* error (itree_insert returns nonzero) and leaves the tree unchanged: no
\* node's interval, v counter, height or child link differs.
C37_TakenIndexRejected ==
    [][inserts_taken =>
          /\ tree'.ret # 0
          /\ tree'.nodes = tree.nodes
          /\ tree'.m_root = tree.m_root]_vars

\* The part of C37 that holds: the insert returns nonzero, and the nodes
\* differ from before in nothing but the v counters.
C37_RejectedUpToCounts ==
    [][inserts_taken =>
          /\ tree'.ret # 0
          /\ tree'.m_root = tree.m_root
          /\ Len(tree'.nodes) = Len(tree.nodes)
          /\ \A n \in DOMAIN tree.nodes :
                 [tree'.nodes[n] EXCEPT !.v = 0] = [tree.nodes[n] EXCEPT !.v = 0]]_vars


\* The workers of the benchmark run, and those that have left the initial
\* fill (their last fill insert and their fetch_sub on fill_barrier made).
workers_of(b) == DOMAIN b.workers

filled(b) ==
    { thread_id \in workers_of(b) :
          /\ b.workers[thread_id].pc # "fill"
          /\ b.workers[thread_id].i = b.workers[thread_id].initial_size }

\* The step in which worker thread_id makes a counted insert or delete_min.
measures(thread_id) ==
    /\ thread_id \in workers_of(bench)
    /\ bench'.workers[thread_id].COUNTERS # bench.workers[thread_id].COUNTERS

\* C38: no worker makes a measured insert or delete_min before every worker
\* has finished its initial fill: start_barrier is set only after
\* fill_barrier has reached 0, and each worker decrements fill_barrier
\* exactly once, after its last fill insert.
C38_FillBeforeMeasure ==
    [][/\ (\E thread_id \in workers_of(bench) : measures(thread_id)) =>
              /\ bench.start_barrier
              /\ filled(bench) = workers_of(bench)
       /\ (bench'.start_barrier /\ ~bench.start_barrier) =>
              /\ bench.fill_barrier = 0
              /\ filled(bench) = workers_of(bench)
       /\ (bench.phase # "none" /\ bench'.fill_barrier # bench.fill_barrier) =>
              /\ bench'.fill_barrier = bench.fill_barrier - 1
              /\ \E thread_id \in workers_of(bench) :
                     /\ filled(bench') = filled(bench) \cup {thread_id}
                     /\ thread_id \notin filled(bench)
                     /\ bench.workers[thread_id].i
                            = bench.workers[thread_id].initial_size
       /\ bench'.phase # "none" =>
              bench'.fill_barrier
                  = bench'.nthreads - Cardinality(filled(bench'))]_vars

\* One of two workers that each had items to fill has made a measured
\* operation while the other still waits on start_barrier.
C38_Witness ==
    /\ bench.nthreads = 2
    /\ \A thread_id \in workers_of(bench) : bench.workers[thread_id].initial_size >= 1
    /\ operations(bench.workers[0].COUNTERS) >= 1
    /\ bench.workers[1].pc = "wait"


\* The counters of a worker that differ between two values of COUNTERS, and
\* what each has grown by.
grown(c, d) ==
    { f \in {"inserts", "successful_deletes", "failed_deletes"} : d[f] # c[f] }

\* The counter the claim names for an operation and its result.
counter_named(op, ret) ==
    IF op = "insert" THEN "inserts"
    ELSE IF ret THEN "successful_deletes" ELSE "failed_deletes"

\* What the first n workers have counted in field f, taken together.
RECURSIVE counted(_, _, _)
counted(workers, f, n) ==
    IF n = 0 THEN 0
    ELSE counted(workers, f, n - 1) + workers[n - 1].COUNTERS[f]

\* The step in which worker thread_id runs one iteration of its measured loop.
iterates(thread_id) ==
    /\ thread_id \in workers_of(bench)
    /\ bench'.workers[thread_id].iterations
           = bench.workers[thread_id].iterations + 1

\* C39: in the measured phase each loop iteration of a worker increments
\* exactly one of its counters (inserts after an insert, successful_deletes
\* after delete_min returned true, failed_deletes after it returned false),
\* and the aggregate reported by bench is the component-wise sum of all
\* workers' counters.
C39_CountersAdditive ==
    [][/\ \A thread_id \in workers_of(bench) :
              iterates(thread_id) =>
                  LET c == bench.workers[thread_id].COUNTERS
                      d == bench'.workers[thread_id].COUNTERS
                  IN  /\ bench'.last.thread_id = thread_id
                      /\ grown(c, d) = {counter_named(bench'.last.op, bench'.last.ret)}
                      /\ \A f \in grown(c, d) : d[f] = c[f] + 1
                      /\ \A o \in workers_of(bench) \ {thread_id} :
                             bench'.workers[o].COUNTERS = bench.workers[o].COUNTERS
       /\ bench'.phase = "done" =>
              \A f \in {"inserts", "successful_deletes", "failed_deletes"} :
                  bench'.counters[f] = counted(bench'.workers, f, bench'.nthreads)]_vars

\* bench has reported the counters of two workers that both counted, with a
\* failed delete_min among the operations.
C39_Witness ==
    /\ bench.phase = "done"
    /\ bench.nthreads = 2
    /\ \A thread_id \in workers_of(bench) :
           operations(bench.workers[thread_id].COUNTERS) >= 1
    /\ bench.counters.failed_deletes >= 1
    /\ bench.counters.inserts >= 1
    /\ bench.counters.successful_deletes >= 1

====
